---- MODULE Spec2Model ----
(***************************************************************************)
(* A model of the Go Apito SDK client (client.go, types.go): the typed     *)
(* conversion layer (convertToTypedDocument, convertToTypedSearchResult,   *)
(* parseExpireAt) over the encoding/json round trip it performs, and the   *)
(* client (NewClient, executeGraphQL, the operations) over the HTTP        *)
(* requests it sends and the answers it is given.                          *)
(***************************************************************************)
EXTENDS Integers, Sequences, FiniteSets, TLC

(***************************************************************************)
(* Bounds of the model.                                                    *)
(***************************************************************************)
\* longest Results sequence of a raw SearchResult
MaxLen == 3
\* most keys in one raw payload
MaxKeys == 2
\* largest Count a raw SearchResult carries
MaxCount == 2

(***************************************************************************)
(* Values of a payload (map[string]interface{}).  A value is a record      *)
(* [k, s, n]: k the kind, s the text of a string, n the number in tenths   *)
(* (200 is 20, 15 is 1.5) or the truth value of a bool.  "nan" is a Go     *)
(* float64 NaN: a value of the map that JSON cannot represent.             *)
(***************************************************************************)
JNull == [k |-> "null", s |-> "", n |-> 0]

JBool(b) == [k |-> "bool", s |-> "", n |-> IF b THEN 1 ELSE 0]

JStr(x) == [k |-> "string", s |-> x, n |-> 0]

JNum(tenths) == [k |-> "number", s |-> "", n |-> tenths]

JObj == [k |-> "object", s |-> "{\"eq\":\"INPROGRESS\"}", n |-> 0]

NaN == [k |-> "nan", s |-> "", n |-> 0]

Values == {JNull, JBool(TRUE), JBool(FALSE), JStr("twenty"), JNum(200), JNum(15), JObj, NaN}

\* the keys of the payloads, and the same keys in the byte order in which
\* json.Marshal writes the keys of a map
Keys == {"Title", "active", "age", "description", "price", "title"}

KeyOrder == <<"Title", "active", "age", "description", "price", "title">>

\* the case folding under which json.Unmarshal matches a key to a field
Fold(key) == IF key = "Title" THEN "title" ELSE key

\* a nil map (rawDoc.Data of a document without data)
NilMap == [nil |-> TRUE]

IsNilMap(m) == DOMAIN m = {"nil"}

Payloads == UNION {[K -> Values] : K \in {S \in SUBSET Keys : Cardinality(S) <= MaxKeys}}

(***************************************************************************)
(* The shapes T the typed operations are instantiated with, restricted to  *)
(* the keys of the model: a sequence of fields, each with its json tag and *)
(* its Go type.                                                            *)
(***************************************************************************)
Todo == <<[name |-> "title", type |-> "string"]>>

Product == <<[name |-> "description", type |-> "string"], [name |-> "price", type |-> "float64"]>>

User == <<[name |-> "age", type |-> "int"], [name |-> "active", type |-> "bool"]>>

Task == <<[name |-> "description", type |-> "interface"]>>

Shapes == {Todo, Product, User, Task}

FieldNames(T) == {T[j].name : j \in 1..Len(T)}

TypeOf(T, f) == T[CHOOSE j \in 1..Len(T) : T[j].name = f].type

\* the zero value of a Go type
Zero(type) ==
  CASE type = "string" -> JStr("")
    [] type = "bool" -> JBool(FALSE)
    [] type = "float64" -> JNum(0)
    [] type = "int" -> JNum(0)
    [] OTHER -> JNull

\* var typedData T
ZeroValue(T) == [f \in FieldNames(T) |-> Zero(TypeOf(T, f))]

(***************************************************************************)
(* Errors are the text of their message, as a sequence of pieces; the nil  *)
(* error is the empty sequence.  fmt.Errorf("...: %w", err) puts its own   *)
(* pieces in front of those of err.                                        *)
(***************************************************************************)
NoErr == <<>>

\* whether the message msg contains the pieces of part, in a row
Contains(msg, part) ==
  \E at \in 0..(Len(msg) - Len(part)) : \A j \in 1..Len(part) : msg[at + j] = part[j]

(***************************************************************************)
(* encoding/json.  A JSON text is the literal null or an object, kept as   *)
(* the sequence of its members in the order they are written.              *)
(***************************************************************************)
SortedKeys(m) == SelectSeq(KeyOrder, LAMBDA key : key \in DOMAIN m)

\* json.Marshal of a map[string]interface{}: null for a nil map, an error for
\* a value JSON cannot represent, and else the members in sorted key order
MarshalMap(m) ==
  IF IsNilMap(m) THEN [err |-> NoErr, null |-> TRUE, members |-> <<>>]
  ELSE IF \E key \in DOMAIN m : m[key].k = "nan"
  THEN [err |-> <<"json: unsupported value: ", "NaN">>, null |-> FALSE, members |-> <<>>]
  ELSE [err |-> NoErr, null |-> FALSE,
        members |-> [j \in 1..Len(SortedKeys(m)) |->
                       [key |-> SortedKeys(m)[j], val |-> m[SortedKeys(m)[j]]]]]

\* a mutant of FieldFor: a key decodes into the field of exactly its name
FieldForExact(T, key) == IF key \in FieldNames(T) THEN key ELSE ""

\* the field of T a key of the input decodes into ("" for none): the field of
\* that name, and failing that a field equal to it but for case
FieldFor(T, key) ==
  IF key \in FieldNames(T) THEN key
  ELSE IF \E f \in FieldNames(T) : Fold(f) = Fold(key)
  THEN CHOOSE f \in FieldNames(T) : Fold(f) = Fold(key)
  ELSE ""

\* whether a JSON value can be stored in a field of the Go type
Fits(type, v) ==
  CASE type = "string" -> v.k = "string"
    [] type = "bool" -> v.k = "bool"
    [] type = "float64" -> v.k = "number"
    [] type = "int" -> v.k = "number" /\ v.n % 10 = 0
    [] OTHER -> TRUE

\* the members of an object decoded one after the other into the struct acc.val:
\* a key without a field is skipped, null leaves a field that is not an
\* interface as it is, a value that does not fit is skipped and the earliest
\* such error kept
RECURSIVE DecodeMembers(_, _, _, _)
DecodeMembers(members, j, T, acc) ==
  IF j > Len(members) THEN acc
  ELSE LET key == members[j].key
           v == members[j].val
           f == FieldFor(T, key)
       IN IF f = "" THEN DecodeMembers(members, j + 1, T, acc)
          ELSE IF v.k = "null" /\ TypeOf(T, f) # "interface"
          THEN DecodeMembers(members, j + 1, T, acc)
          ELSE IF Fits(TypeOf(T, f), v)
          THEN DecodeMembers(members, j + 1, T, [acc EXCEPT !.val[f] = v])
          ELSE DecodeMembers(members, j + 1, T,
                 IF acc.err # NoErr THEN acc
                 ELSE [acc EXCEPT !.err = <<"json: cannot unmarshal ", v.k,
                                            " into Go struct field ", f,
                                            " of type ", TypeOf(T, f)>>])

\* a mutant of UnmarshalInto: the text is decoded into a copy of typedData
UnmarshalIntoCopy(text, T) ==
  [err |-> (IF text.null THEN [err |-> NoErr, val |-> ZeroValue(T)]
            ELSE DecodeMembers(text.members, 1, T, [err |-> NoErr, val |-> ZeroValue(T)])).err,
   val |-> ZeroValue(T)]

\* json.Unmarshal(text, &typedData) with typedData the zero value of T
UnmarshalInto(text, T) ==
  IF text.null THEN [err |-> NoErr, val |-> ZeroValue(T)]
  ELSE DecodeMembers(text.members, 1, T, [err |-> NoErr, val |-> ZeroValue(T)])

\* json.Marshal of a value of T: its fields in the order of their declaration
MarshalTyped(val, T) ==
  [err |-> NoErr, null |-> FALSE,
   members |-> [j \in 1..Len(T) |-> [key |-> T[j].name, val |-> val[T[j].name]]]]

\* a JSON object as the mapping of its keys to their values
ObjectOf(text) ==
  [key \in {text.members[j].key : j \in 1..Len(text.members)} |->
     text.members[CHOOSE j \in 1..Len(text.members) : text.members[j].key = key].val]

(***************************************************************************)
(* Documents.  A raw document is a *shared.DefaultDocumentStructure, of    *)
(* which client.go reads Key, Data, Meta, ID, ExpireAt, RelationDocID and  *)
(* Type; Meta is a *protobuff.MetaField, here an address of metaHeap (0    *)
(* for nil).  A typed document is a *TypedDocumentStructure[T].            *)
(***************************************************************************)
NilAddr == 0

NilDoc ==
  [nil |-> TRUE, Key |-> "", Data |-> NilMap, Meta |-> NilAddr, ID |-> "",
   ExpireAt |-> "", RelationDocID |-> "", Type |-> ""]

NilTyped ==
  [nil |-> TRUE, Key |-> "", Data |-> <<>>, Meta |-> NilAddr, ID |-> "",
   ExpireAt |-> 0, RelationDocID |-> "", Type |-> ""]

NilTypedResults == [nil |-> TRUE, Results |-> <<>>, Count |-> 0]

\* a cell of the heap of MetaField objects
FreeCell == [used |-> FALSE, status |-> "", revision |-> 0]

MetaCell == [used |-> TRUE, status |-> "published", revision |-> 1]

\* a mutant of parseExpireAt: a marker that is not empty gives an epoch
parseExpireAtParsing(expireAt) ==
  IF expireAt = "" THEN 0
  ELSE 1893456000

\* parseExpireAt: string expire_at to int64
parseExpireAt(expireAt) ==
  IF expireAt = "" THEN 0
  ELSE 0

\* a mutant of convertToTypedDocument: the document filled so far is returned
\* together with the error of json.Unmarshal
convertToTypedDocumentPartial(rawDoc, T) ==
  IF rawDoc.nil
  THEN [panic |-> TRUE, doc |-> NilTyped, err |-> NoErr]
  ELSE LET dataJSON == MarshalMap(rawDoc.Data)
           typed == UnmarshalInto(dataJSON, T)
       IN IF dataJSON.err # NoErr
          THEN [panic |-> FALSE, doc |-> NilTyped,
                err |-> <<"failed to marshal raw data: ">> \o dataJSON.err]
          ELSE [panic |-> FALSE,
                doc |-> [nil |-> FALSE, Key |-> rawDoc.Key, Data |-> typed.val,
                         Meta |-> rawDoc.Meta, ID |-> rawDoc.ID,
                         ExpireAt |-> parseExpireAt(rawDoc.ExpireAt),
                         RelationDocID |-> rawDoc.RelationDocID, Type |-> rawDoc.Type],
                err |-> IF typed.err # NoErr
                        THEN <<"failed to unmarshal to typed data: ">> \o typed.err
                        ELSE NoErr]

\* a mutant of convertToTypedDocument: a nil raw document is an error
convertToTypedDocumentChecked(rawDoc, T) ==
  IF rawDoc.nil
  THEN [panic |-> FALSE, doc |-> NilTyped, err |-> <<"raw document is nil">>]
  ELSE LET dataJSON == MarshalMap(rawDoc.Data)
           typed == UnmarshalInto(dataJSON, T)
       IN IF dataJSON.err # NoErr
          THEN [panic |-> FALSE, doc |-> NilTyped,
                err |-> <<"failed to marshal raw data: ">> \o dataJSON.err]
          ELSE IF typed.err # NoErr
          THEN [panic |-> FALSE, doc |-> NilTyped,
                err |-> <<"failed to unmarshal to typed data: ">> \o typed.err]
          ELSE [panic |-> FALSE,
                doc |-> [nil |-> FALSE, Key |-> rawDoc.Key, Data |-> typed.val,
                         Meta |-> rawDoc.Meta, ID |-> rawDoc.ID,
                         ExpireAt |-> parseExpireAt(rawDoc.ExpireAt),
                         RelationDocID |-> rawDoc.RelationDocID, Type |-> rawDoc.Type],
                err |-> NoErr]

\* convertToTypedDocument[T](rawDoc): [panic, doc, err]
convertToTypedDocument(rawDoc, T) ==
  IF rawDoc.nil
  THEN \* rawDoc.Data of a nil pointer
       [panic |-> TRUE, doc |-> NilTyped, err |-> NoErr]
  ELSE LET dataJSON == MarshalMap(rawDoc.Data)
           typed == UnmarshalInto(dataJSON, T)
       IN IF dataJSON.err # NoErr
          THEN [panic |-> FALSE, doc |-> NilTyped,
                err |-> <<"failed to marshal raw data: ">> \o dataJSON.err]
          ELSE IF typed.err # NoErr
          THEN [panic |-> FALSE, doc |-> NilTyped,
                err |-> <<"failed to unmarshal to typed data: ">> \o typed.err]
          ELSE [panic |-> FALSE,
                doc |-> [nil |-> FALSE,
                         Key |-> rawDoc.Key,
                         Data |-> typed.val,
                         Meta |-> rawDoc.Meta,
                         ID |-> rawDoc.ID,
                         ExpireAt |-> parseExpireAt(rawDoc.ExpireAt),
                         RelationDocID |-> rawDoc.RelationDocID,
                         Type |-> rawDoc.Type],
                err |-> NoErr]

(***************************************************************************)
(* The state of the conversion layer: the heap of MetaField objects, the   *)
(* call in progress ("document" for convertToTypedDocument, "search" for   *)
(* convertToTypedSearchResult) and its input (rawDoc or rawResults, and T),*)
(* the position and the locals of convertToTypedSearchResult (i,           *)
(* typedResults), the indexes it has passed to convertToTypedDocument, and *)
(* what the call and the call before it returned.                          *)
(***************************************************************************)
VARIABLES metaHeap, call, rawDoc, rawResults, shape, pc, i, typedResults, converted, ret, prev

convVars == <<metaHeap, call, rawDoc, rawResults, shape, pc, i, typedResults, converted, ret, prev>>

\* The state of the client: the Config given to NewClient, the Client it
\* returned, and the calls of the operations, one for each calling goroutine.
VARIABLES config, client, calls

clientVars == <<config, client, calls>>

vars == <<convVars, clientVars>>

NoRet == [kind |-> "none", doc |-> NilTyped, results |-> NilTypedResults, err |-> NoErr]

NoRawResults == [ResultsNil |-> TRUE, Results |-> <<>>, Count |-> 0]

InitConv ==
  /\ metaHeap = [a \in 1..MaxLen |-> FreeCell]
  /\ call = "none"
  /\ rawDoc = NilDoc
  /\ rawResults = NoRawResults
  /\ shape = Todo
  /\ pc = "idle"
  /\ i = 0
  /\ typedResults = NilTypedResults
  /\ converted = <<>>
  /\ ret = NoRet
  /\ prev = NoRet

\* the envelopes of the documents a single conversion is given
Envelopes ==
  {[Key |-> "", ID |-> "t1", ExpireAt |-> "", RelationDocID |-> "", Type |-> "todo", Meta |-> NilAddr],
   [Key |-> "k1", ID |-> "t2", ExpireAt |-> "2030-01-01T00:00:00Z", RelationDocID |-> "r1",
    Type |-> "todo", Meta |-> 1]}

RawDocOf(env, data) ==
  [nil |-> FALSE, Key |-> env.Key, Data |-> data, Meta |-> env.Meta, ID |-> env.ID,
   ExpireAt |-> env.ExpireAt, RelationDocID |-> env.RelationDocID, Type |-> env.Type]

\* a typed operation has received the raw document of its untyped counterpart
LoadDocument(env, data, T) ==
  /\ pc = "idle"
  /\ rawDoc' = RawDocOf(env, data)
  /\ metaHeap' = [a \in 1..MaxLen |-> IF a = env.Meta THEN MetaCell ELSE FreeCell]
  /\ shape' = T
  /\ call' = "document"
  /\ pc' = "document"
  /\ UNCHANGED <<rawResults, i, typedResults, converted, ret, prev>>
  /\ UNCHANGED clientVars

\* a mutant of ConvertDocument: the conversion clears the payload it has read
ConvertDocumentClearing ==
  /\ pc = "document"
  /\ LET r == convertToTypedDocument(rawDoc, shape)
     IN ret' = [kind |-> IF r.panic THEN "panic" ELSE "returned", doc |-> r.doc,
                results |-> NilTypedResults, err |-> r.err]
  /\ rawDoc' = [rawDoc EXCEPT !.Data = NilMap]
  /\ pc' = "done"
  /\ UNCHANGED <<metaHeap, call, rawResults, shape, i, typedResults, converted, prev>>
  /\ UNCHANGED clientVars

\* return convertToTypedDocument[T](rawDocument)
ConvertDocument ==
  /\ pc = "document"
  /\ LET r == convertToTypedDocument(rawDoc, shape)
     IN ret' = [kind |-> IF r.panic THEN "panic" ELSE "returned", doc |-> r.doc,
                results |-> NilTypedResults, err |-> r.err]
  /\ pc' = "done"
  /\ UNCHANGED <<metaHeap, call, rawDoc, rawResults, shape, i, typedResults, converted, prev>>
  /\ UNCHANGED clientVars

\* the same raw document is converted once more
ConvertAgain ==
  /\ pc = "done"
  /\ ret.kind = "returned"
  /\ call = "document"
  /\ prev.kind = "none"
  /\ prev' = ret
  /\ ret' = NoRet
  /\ pc' = "document"
  /\ UNCHANGED <<metaHeap, call, rawDoc, rawResults, shape, i, typedResults, converted>>
  /\ UNCHANGED clientVars

\* the documents of the raw search results of the model: the one at position j
\* has its MetaField, if any, at address j
SearchData == {[title |-> JStr("twenty")], [title |-> JNum(200)], [price |-> NaN]}

SearchDocs ==
  {[nil |-> FALSE, Key |-> "", Data |-> d, Meta |-> IF id = "a" THEN 1 ELSE NilAddr, ID |-> id,
    ExpireAt |-> "", RelationDocID |-> "", Type |-> "todo"] : d \in SearchData, id \in {"a", "b"}}
  \cup {NilDoc}

Place(doc, j) == IF doc.Meta = NilAddr THEN doc ELSE [doc EXCEPT !.Meta = j]

\* a typed operation has received the raw search result of its untyped
\* counterpart: Results (nil or a sequence, with nil elements) and Count
LoadSearchResult(docs, isNil, count, T) ==
  /\ pc = "idle"
  /\ isNil => docs = <<>>
  /\ rawResults' = [ResultsNil |-> isNil, Results |-> [j \in 1..Len(docs) |-> Place(docs[j], j)],
                    Count |-> count]
  /\ metaHeap' = [a \in 1..MaxLen |->
                    IF a <= Len(docs) /\ docs[a].Meta # NilAddr THEN MetaCell ELSE FreeCell]
  /\ shape' = T
  /\ call' = "search"
  /\ pc' = "search"
  /\ UNCHANGED <<rawDoc, i, typedResults, converted, ret, prev>>
  /\ UNCHANGED clientVars

\* a mutant of NewTypedResults: Count is the number of the results
NewTypedResultsCounted(raw) ==
  [nil |-> FALSE, Results |-> [j \in 1..Len(raw.Results) |-> NilTyped], Count |-> Len(raw.Results)]

\* &TypedSearchResult[T]{Count: rawResults.Count, Results: make(..., len(rawResults.Results))}
NewTypedResults(raw) ==
  [nil |-> FALSE, Results |-> [j \in 1..Len(raw.Results) |-> NilTyped], Count |-> raw.Count]

\* a mutant of StoreTyped: the documents are stored from the end
StoreTypedReversed(results, j, typedDoc) ==
  [results EXCEPT !.Results[Len(results.Results) + 1 - j] = typedDoc]

\* typedResults.Results[i] = typedDoc
StoreTyped(results, j, typedDoc) == [results EXCEPT !.Results[j] = typedDoc]

\* a mutant of IndexError: the index counted from 1
IndexErrorFromOne(j, err) ==
  <<"failed to convert document at index ", ToString(j), ": ">> \o err

\* fmt.Errorf("failed to convert document at index %d: %w", i, err), the
\* positions of the model being counted from 1 and those of Go from 0
IndexError(j, err) ==
  <<"failed to convert document at index ", ToString(j - 1), ": ">> \o err

\* typedResults := &TypedSearchResult[T]{...}
SearchBegin ==
  /\ pc = "search"
  /\ typedResults' = NewTypedResults(rawResults)
  /\ i' = 1
  /\ pc' = "loop"
  /\ UNCHANGED <<metaHeap, call, rawDoc, rawResults, shape, converted, ret, prev>>
  /\ UNCHANGED clientVars

\* one turn of: for i, rawDoc := range rawResults.Results
SearchLoop ==
  /\ pc = "loop"
  /\ i <= Len(rawResults.Results)
  /\ LET r == convertToTypedDocument(rawResults.Results[i], shape)
     IN /\ converted' = Append(converted, i)
        /\ IF r.panic
           THEN /\ ret' = [kind |-> "panic", doc |-> NilTyped, results |-> NilTypedResults,
                           err |-> NoErr]
                /\ pc' = "done"
                /\ UNCHANGED <<i, typedResults>>
           ELSE IF r.err # NoErr
           THEN /\ ret' = [kind |-> "returned", doc |-> NilTyped, results |-> NilTypedResults,
                           err |-> IndexError(i, r.err)]
                /\ pc' = "done"
                /\ UNCHANGED <<i, typedResults>>
           ELSE /\ typedResults' = StoreTyped(typedResults, i, r.doc)
                /\ i' = i + 1
                /\ UNCHANGED <<ret, pc>>
  /\ UNCHANGED <<metaHeap, call, rawDoc, rawResults, shape, prev>>
  /\ UNCHANGED clientVars

\* return typedResults, nil
SearchReturn ==
  /\ pc = "loop"
  /\ i > Len(rawResults.Results)
  /\ ret' = [kind |-> "returned", doc |-> NilTyped, results |-> typedResults, err |-> NoErr]
  /\ pc' = "done"
  /\ UNCHANGED <<metaHeap, call, rawDoc, rawResults, shape, i, typedResults, converted, prev>>
  /\ UNCHANGED clientVars

\* the MetaField objects a returned value points to
MetaOf(r) ==
  ({r.doc.Meta} \cup {r.results.Results[j].Meta : j \in 1..Len(r.results.Results)}) \ {NilAddr}

\* the caller writes to the MetaField of a typed document it was returned
WriteTypedMeta(a) ==
  /\ pc \in {"done", "written"}
  /\ a \in MetaOf(ret)
  /\ metaHeap[a].status = "published"
  /\ metaHeap' = [metaHeap EXCEPT ![a].status = "archived"]
  /\ pc' = "written"
  /\ UNCHANGED <<call, rawDoc, rawResults, shape, i, typedResults, converted, ret, prev>>
  /\ UNCHANGED clientVars

\* the caller writes to the payload of a typed document it was returned
WriteTypedData(f) ==
  /\ pc \in {"done", "written"}
  /\ ret.kind = "returned"
  /\ ~ret.doc.nil
  /\ f \in DOMAIN ret.doc.Data
  /\ ret.doc.Data[f] # JStr("edited")
  /\ ret' = [ret EXCEPT !.doc.Data[f] = JStr("edited")]
  /\ pc' = "written"
  /\ UNCHANGED <<metaHeap, call, rawDoc, rawResults, shape, i, typedResults, converted, prev>>
  /\ UNCHANGED clientVars

\* the inputs of LoadDocument and of LoadSearchResult
DocumentInputs == (Payloads \cup {NilMap}) \X Envelopes \X Shapes

SearchInputs ==
  (UNION {[1..n -> SearchDocs] : n \in 0..MaxLen}) \X BOOLEAN \X (0..MaxCount) \X {Todo, Product}

NextConv ==
  \/ /\ pc = "idle"
     /\ \E in \in DocumentInputs : LoadDocument(in[2], in[1], in[3])
  \/ ConvertDocument
  \/ ConvertAgain
  \/ /\ pc = "idle"
     /\ \E in \in SearchInputs : LoadSearchResult(in[1], in[2], in[3], in[4])
  \/ SearchBegin
  \/ SearchLoop
  \/ SearchReturn
  \/ \E a \in 1..MaxLen : WriteTypedMeta(a)
  \/ \E f \in Keys : WriteTypedData(f)


(***************************************************************************)
(* Properties of the conversion layer.                                     *)
(***************************************************************************)
\* the call to convertToTypedSearchResult has ended
SearchDone == call = "search" /\ pc = "done"

\* the call to convertToTypedDocument has ended
DocumentDone == call = "document" /\ pc = "done"

\* convertToTypedDocument returns a document for the raw document
Converts(doc, T) ==
  /\ ~convertToTypedDocument(doc, T).panic
  /\ convertToTypedDocument(doc, T).err = NoErr

\* the positions of the raw results whose document is not converted
Failing == {j \in 1..Len(rawResults.Results) : ~Converts(rawResults.Results[j], shape)}

\* C1: when every one of the N >= 0 raw documents converts, the typed search
\* result is returned without an error and holds exactly N typed documents,
\* the one at position j being the conversion of the raw document at
\* position j; a nil or empty Results gives an empty result, not an error.
C1_OrderPreserved ==
  (SearchDone /\ Failing = {}) =>
    /\ ret.kind = "returned"
    /\ ret.err = NoErr
    /\ ~ret.results.nil
    /\ Len(ret.results.Results) = Len(rawResults.Results)
    /\ \A j \in 1..Len(rawResults.Results) :
         /\ ~ret.results.Results[j].nil
         /\ ret.results.Results[j] = convertToTypedDocument(rawResults.Results[j], shape).doc
         /\ ret.results.Results[j].ID = rawResults.Results[j].ID

C1_Witness ==
  /\ SearchDone
  /\ Failing = {}
  /\ Len(rawResults.Results) = MaxLen
  /\ rawResults.Results[1].ID # rawResults.Results[MaxLen].ID
  /\ ret.results.Results[1].ID = rawResults.Results[1].ID

\* the smallest position whose document is not converted
FirstFailing == CHOOSE k \in Failing : \A j \in Failing : k <= j

\* C2: when the first raw document that is not converted, at index k
\* (counted from 0), makes convertToTypedDocument return an error, the call
\* returns a nil result and an error naming index k, and no document after k
\* has been passed to convertToTypedDocument.
C2_AtomicFailure ==
  (SearchDone /\ Failing # {} /\ ~rawResults.Results[FirstFailing].nil) =>
    /\ ret.kind = "returned"
    /\ ret.results.nil
    /\ ret.doc.nil
    /\ Contains(ret.err, <<"failed to convert document at index ", ToString(FirstFailing - 1), ": ">>)
    /\ converted = [j \in 1..FirstFailing |-> j]

C2_Witness ==
  /\ SearchDone
  /\ Len(rawResults.Results) = MaxLen
  /\ Failing = {2, MaxLen}
  /\ ~rawResults.Results[2].nil
  /\ ret.results.nil
  /\ Contains(ret.err, <<"failed to convert document at index ", "1", ": ">>)

\* the seconds since the epoch an expire_at text stands for
EpochOf(expireAt) == IF expireAt = "" THEN 0 ELSE 1893456000

\* the typed document carries the envelope of the raw document
SameEnvelope(typed, raw) ==
  /\ typed.ID = raw.ID
  /\ typed.Meta = raw.Meta
  /\ typed.ExpireAt = EpochOf(raw.ExpireAt)
  /\ typed.RelationDocID = raw.RelationDocID
  /\ typed.Type = raw.Type

\* C3: after a successful convertToTypedDocument the typed document's
\* identifier, metadata block, expiration marker, relation-document id and
\* type discriminator are those of the raw document.
C3_EnvelopePassthrough ==
  (DocumentDone /\ ret.kind = "returned" /\ ret.err = NoErr) => SameEnvelope(ret.doc, rawDoc)

\* C4: the typed result carries the Count of the raw result whatever the
\* number of its Results: when every raw document converts, the call
\* succeeds with the raw Count and as many documents as the raw result.
C4_CountCopied ==
  (SearchDone /\ Failing = {}) =>
    /\ ret.kind = "returned"
    /\ ret.err = NoErr
    /\ ret.results.Count = rawResults.Count
    /\ Len(ret.results.Results) = Len(rawResults.Results)

C4_Witness ==
  /\ SearchDone
  /\ rawResults.Count = 2
  /\ Len(rawResults.Results) = 1
  /\ ret.err = NoErr
  /\ ret.results.Count = 2
  /\ Len(ret.results.Results) = 1

\* the payload cannot be serialized, or cannot be deserialized into T: it
\* holds a NaN, or a key that decodes into a field of T with a value that is
\* neither null nor of the field's type
Unconvertible(data, T) ==
  /\ ~IsNilMap(data)
  /\ \/ \E key \in DOMAIN data : data[key] = NaN
     \/ \E key \in DOMAIN data :
          /\ FieldFor(T, key) # ""
          /\ data[key] # JNull
          /\ ~Fits(TypeOf(T, FieldFor(T, key)), data[key])

\* C5: when the payload cannot be serialized or cannot be deserialized into
\* T, convertToTypedDocument returns a nil document and a non-nil error; it
\* never returns a document together with an error.
C5_NoPartialOnFailure ==
  DocumentDone =>
    /\ ret.kind = "returned"
    /\ Unconvertible(rawDoc.Data, shape) => (ret.doc.nil /\ ret.err # NoErr)
    /\ ret.err # NoErr => ret.doc.nil
    /\ ret.err = NoErr => ~ret.doc.nil

C5_Witness ==
  /\ DocumentDone
  /\ shape = Product
  /\ ~IsNilMap(rawDoc.Data)
  /\ DOMAIN rawDoc.Data = {"price"}
  /\ rawDoc.Data["price"] = JStr("twenty")
  /\ ret.doc.nil
  /\ Contains(ret.err, <<"failed to unmarshal to typed data: ">>)

\* the typed document was returned by a successful convertToTypedDocument
DocumentConverted == DocumentDone /\ ret.kind = "returned" /\ ret.err = NoErr

\* the payload has a value under the key
Has(data, key) == ~IsNilMap(data) /\ key \in DOMAIN data

Feeding(data, T, f) ==
  IF IsNilMap(data) THEN {}
  ELSE {key \in DOMAIN data :
          /\ Fold(key) = Fold(f)
          /\ (data[key] # JNull \/ TypeOf(T, f) = "interface")}

\* the last key of a set in the byte order of the keys
LastKey(S) == CHOOSE key \in S : \A other \in S :
  (CHOOSE j \in 1..Len(KeyOrder) : KeyOrder[j] = other)
    <= (CHOOSE j \in 1..Len(KeyOrder) : KeyOrder[j] = key)

Matches(data, T) ==
  /\ ~IsNilMap(data)
  /\ \A f \in FieldNames(T) : f \in DOMAIN data /\ data[f] # NaN /\ Fits(TypeOf(T, f), data[f])
  /\ \A f \in FieldNames(T) : data[f] = JNull => TypeOf(T, f) = "interface"

\* the payload, restricted to the fields of T
Restricted(data, T) == [f \in FieldNames(T) |-> data[f]]

\* the typed payload of the returned document, serialized again
Reserialized == ObjectOf(MarshalTyped(ret.doc.Data, shape))

\* every key of the payload holds a value JSON can represent
Serializable(data) == IsNilMap(data) \/ \A key \in DOMAIN data : data[key] # NaN

NoStrayVariant(data, T) ==
  \A key \in DOMAIN data \ FieldNames(T) :
    FieldFor(T, key) # "" => (data[key] = JNull \/ Fits(TypeOf(T, FieldFor(T, key)), data[key]))

RawMeta ==
  ({rawDoc.Meta} \cup {rawResults.Results[j].Meta : j \in 1..Len(rawResults.Results)}) \ {NilAddr}

\* what can be read through the raw input
RawView == <<rawDoc, rawResults, [a \in RawMeta |-> metaHeap[a]]>>

\* a step of a conversion
Converting == pc \in {"document", "search", "loop"}

\* C8 (as stated): a conversion leaves the raw input unchanged, and what it
\* returns shares nothing with the raw input: a later write to a returned
\* typed document leaves unchanged what is read through the raw input.
C8_NothingShared ==
  [][/\ Converting => RawView' = RawView
     /\ pc' = "written" => RawView' = RawView]_convVars

\* C8 (amended): a conversion leaves the raw input and its metadata blocks
\* unchanged and returns a new typed document with a newly decoded payload,
\* whose Meta however is the very MetaField of the raw document, and of any
\* other conversion of it: a later write to a returned document's payload is
\* not seen through the raw input, a write to its metadata block is.
C8_PureMetaShared ==
  /\ [](DocumentConverted =>
          /\ ret.doc.Meta = rawDoc.Meta
          /\ prev.kind = "returned" => prev.doc.Meta = ret.doc.Meta)
  /\ [][/\ Converting => UNCHANGED <<rawDoc, rawResults, metaHeap>>
        /\ pc' = "written" =>
             /\ UNCHANGED <<rawDoc, rawResults>>
             /\ \A a \in 1..MaxLen : metaHeap'[a] # metaHeap[a] => a \in MetaOf(ret) \cap RawMeta]_convVars

C8_Witness ==
  /\ call = "document"
  /\ pc = "written"
  /\ prev.kind = "returned"
  /\ ret.kind = "returned"
  /\ rawDoc.Meta # NilAddr
  /\ ret.doc.Meta = rawDoc.Meta
  /\ prev.doc.Meta = rawDoc.Meta
  /\ metaHeap[rawDoc.Meta].status = "archived"
  /\ ret.doc.Data # prev.doc.Data

(***************************************************************************)
(* The client (client.go): NewClient, executeGraphQL and the operations    *)
(* built on it.  A call of an operation runs up to httpClient.Do, waits    *)
(* for the outcome of the request, and runs from there to its return.      *)
(***************************************************************************)
\* the timeout, in seconds, NewClient sets when Config.Timeout is zero
DefaultTimeout == 30

\* http.StatusOK
StatusOK == 200

\* Config.HTTPClient: nil, or an *http.Client of the caller
NoHTTPClient == [nil |-> TRUE, Timeout |-> 0]

CustomHTTPClient == [nil |-> FALSE, Timeout |-> 5]

GoodURL == "https://api.example.com/graphql"

\* a BaseURL that http.NewRequestWithContext cannot parse
BadURL == "://api.example.com"

Configs ==
  [BaseURL : {GoodURL, BadURL}, APIKey : {"test-api-key"}, Timeout : {0, 10},
   HTTPClient : {NoHTTPClient, CustomHTTPClient}]

NoConfig == [BaseURL |-> "", APIKey |-> "", Timeout |-> 0, HTTPClient |-> NoHTTPClient]

NoClient == [nil |-> TRUE, baseURL |-> "", apiKey |-> "", httpClient |-> NoHTTPClient]

\* a mutant of NewClient: no default for a zero Timeout
NewClientWithoutDefault(cfg) ==
  LET httpClient == IF cfg.HTTPClient.nil THEN [nil |-> FALSE, Timeout |-> cfg.Timeout]
                    ELSE cfg.HTTPClient
  IN [nil |-> FALSE, baseURL |-> cfg.BaseURL, apiKey |-> cfg.APIKey, httpClient |-> httpClient]

\* NewClient(config)
NewClient(cfg) ==
  LET Timeout == IF cfg.Timeout = 0 THEN DefaultTimeout ELSE cfg.Timeout
      httpClient == IF cfg.HTTPClient.nil
                    THEN [nil |-> FALSE, Timeout |-> Timeout]
                    ELSE cfg.HTTPClient
  IN [nil |-> FALSE, baseURL |-> cfg.BaseURL, apiKey |-> cfg.APIKey, httpClient |-> httpClient]

\* ctx.Value("tenant_id"): nil, a string, or a value of another type
NoTenant == [k |-> "nil", s |-> "", n |-> 0]

Contexts == [tenant : {NoTenant, JStr("tenant-1"), JNum(70)}]

\* a map[string]interface{} as a value, with the JSON text it is written as
JMap(m, text) == [k |-> "map", s |-> text, n |-> 0, m |-> m]

\* whether json.Marshal can write the value
Marshalable(v) == v.k # "nan" /\ (v.k = "map" => MarshalMap(v.m).err = NoErr)

(***************************************************************************)
(* The operations up to the call of executeGraphQL: the validation of the  *)
(* arguments, the query and the variables.  The query is kept as the name  *)
(* of its GraphQL operation.                                               *)
(***************************************************************************)
Rejected(msg) == [err |-> <<msg>>, query |-> "", variables |-> <<>>]

Query(name, variables) == [err |-> NoErr, query |-> name, variables |-> variables]

FilterKeys == {"page", "limit", "where", "search"}

\* a mutant of FilterVariables: every key of the filter is sent
FilterVariablesAll(filter) ==
  IF IsNilMap(filter) THEN <<>>
  ELSE [key \in DOMAIN filter |-> filter[key]]

\* if page, ok := filter["page"]; ok { variables["page"] = page } and so on
FilterVariables(filter) ==
  IF IsNilMap(filter) THEN <<>>
  ELSE [key \in FilterKeys \cap DOMAIN filter |-> filter[key]]

GenerateTenantTokenRequest(args) ==
  Query("GenerateTenantToken",
        ("token" :> JStr(args.token)) @@ ("tenantId" :> JStr(args.tenantID)))

GetSingleResourceRequest(args) ==
  Query("GetSingleData",
        ("model" :> JStr(args.model)) @@ ("_id" :> JStr(args.id))
          @@ ("single_page_data" :> JBool(args.singlePageData)))

SearchResourcesRequest(args) ==
  Query("GetModelData", FilterVariables(args.filter) @@ ("model" :> JStr(args.model)))

\* a mutant of GetRelationDocumentsRequest: the _id is sent
GetRelationDocumentsRequestWithID(args) ==
  LET connection == args.connection
      HasString(key) ==
        ~IsNilMap(connection) /\ key \in DOMAIN connection /\ connection[key].k = "string"
      HasMap(key) ==
        ~IsNilMap(connection) /\ key \in DOMAIN connection /\ connection[key].k = "map"
  IN IF ~HasString("model") THEN Rejected("model is required in connection parameters")
     ELSE Query("GetModelData",
                (IF HasMap("filter") THEN FilterVariables(connection["filter"].m) ELSE <<>>)
                  @@ ("model" :> connection["model"])
                  @@ ("connection" :> JMap(connection, ""))
                  @@ ("_id" :> JStr(args.id)))

GetRelationDocumentsRequest(args) ==
  LET connection == args.connection
      HasString(key) ==
        ~IsNilMap(connection) /\ key \in DOMAIN connection /\ connection[key].k = "string"
      HasMap(key) ==
        ~IsNilMap(connection) /\ key \in DOMAIN connection /\ connection[key].k = "map"
  IN IF ~HasString("model") THEN Rejected("model is required in connection parameters")
     ELSE Query("GetModelData",
                (IF HasMap("filter") THEN FilterVariables(connection["filter"].m) ELSE <<>>)
                  @@ ("model" :> connection["model"])
                  @@ ("connection" :> JMap(connection, "")))

CreateNewResourceRequest(args) ==
  IF args.Model = "" THEN Rejected("model is required")
  ELSE IF IsNilMap(args.Payload) THEN Rejected("payload is required")
  ELSE Query("CreateNewData",
             (IF IsNilMap(args.Connect) THEN <<>> ELSE ("connect" :> JMap(args.Connect, "")))
               @@ ("model" :> JStr(args.Model))
               @@ ("payload" :> JMap(args.Payload, ""))
               @@ ("single_page_data" :> JBool(args.SinglePageData)))

\* a mutant of UpdateResourceRequest: the model is checked before the id
UpdateResourceRequestModelFirst(args) ==
  IF args.Model = "" THEN Rejected("model is required")
  ELSE IF args.ID = "" THEN Rejected("id is required")
  ELSE IF IsNilMap(args.Payload) THEN Rejected("payload is required")
  ELSE Query("UpdateModelData",
             (IF IsNilMap(args.Disconnect) THEN <<>>
              ELSE ("disconnect" :> JMap(args.Disconnect, "")))
               @@ (IF IsNilMap(args.Connect) THEN <<>>
                   ELSE ("connect" :> JMap(args.Connect, "")))
               @@ ("_id" :> JStr(args.ID))
               @@ ("model" :> JStr(args.Model))
               @@ ("payload" :> JMap(args.Payload, ""))
               @@ ("single_page_data" :> JBool(args.SinglePageData))
               @@ ("force_update" :> JBool(args.ForceUpdate)))

UpdateResourceRequest(args) ==
  IF args.ID = "" THEN Rejected("id is required")
  ELSE IF args.Model = "" THEN Rejected("model is required")
  ELSE IF IsNilMap(args.Payload) THEN Rejected("payload is required")
  ELSE Query("UpdateModelData",
             (IF IsNilMap(args.Disconnect) THEN <<>>
              ELSE ("disconnect" :> JMap(args.Disconnect, "")))
               @@ (IF IsNilMap(args.Connect) THEN <<>>
                   ELSE ("connect" :> JMap(args.Connect, "")))
               @@ ("_id" :> JStr(args.ID))
               @@ ("model" :> JStr(args.Model))
               @@ ("payload" :> JMap(args.Payload, ""))
               @@ ("single_page_data" :> JBool(args.SinglePageData))
               @@ ("force_update" :> JBool(args.ForceUpdate)))

DeleteResourceRequest(args) ==
  Query("DeleteData", ("model" :> JStr(args.model)) @@ ("_id" :> JStr(args.id)))

SendAuditLogRequest(args) == Query("SendAuditLog", ("auditData" :> args.auditData))

DebugRequest(args) ==
  Query("Debug", ("stage" :> JStr(args.stage)) @@ ("data" :> args.data))

\* the untyped operations, the typed ones, and the untyped operation a typed
\* one calls
UntypedOperations ==
  {"GenerateTenantToken", "GetSingleResource", "SearchResources", "GetRelationDocuments",
   "CreateNewResource", "UpdateResource", "DeleteResource", "SendAuditLog", "Debug"}

TypedOperations ==
  {"GetSingleResourceTyped", "SearchResourcesTyped", "GetRelationDocumentsTyped",
   "CreateNewResourceTyped", "UpdateResourceTyped"}

Operations == UntypedOperations \cup TypedOperations

Untyped(op) ==
  CASE op = "GetSingleResourceTyped" -> "GetSingleResource"
    [] op = "SearchResourcesTyped" -> "SearchResources"
    [] op = "GetRelationDocumentsTyped" -> "GetRelationDocuments"
    [] op = "CreateNewResourceTyped" -> "CreateNewResource"
    [] op = "UpdateResourceTyped" -> "UpdateResource"
    [] OTHER -> op

RequestOf(op, args) ==
  CASE Untyped(op) = "GenerateTenantToken" -> GenerateTenantTokenRequest(args)
    [] Untyped(op) = "GetSingleResource" -> GetSingleResourceRequest(args)
    [] Untyped(op) = "SearchResources" -> SearchResourcesRequest(args)
    [] Untyped(op) = "GetRelationDocuments" -> GetRelationDocumentsRequest(args)
    [] Untyped(op) = "CreateNewResource" -> CreateNewResourceRequest(args)
    [] Untyped(op) = "UpdateResource" -> UpdateResourceRequest(args)
    [] Untyped(op) = "DeleteResource" -> DeleteResourceRequest(args)
    [] Untyped(op) = "SendAuditLog" -> SendAuditLogRequest(args)
    [] OTHER -> DebugRequest(args)

(***************************************************************************)
(* executeGraphQL up to httpClient.Do.                                     *)
(***************************************************************************)
NoReq ==
  [sent |-> FALSE, method |-> "", url |-> "", header |-> <<>>, query |-> "", variables |-> <<>>]

\* json.Marshal(payload), the body of the request being kept as the query and
\* the variables it is the text of
MarshalPayload(query, variables) ==
  IF \E name \in DOMAIN variables : ~Marshalable(variables[name])
  THEN [err |-> <<"json: unsupported value: ", "NaN">>, query |-> "", variables |-> <<>>]
  ELSE [err |-> NoErr, query |-> query, variables |-> variables]

\* a mutant of executeGraphQLSend: the API key goes into an Authorization header
executeGraphQLSendBearer(c, ctx, query, variables) ==
  IF ctx.tenant # NoTenant /\ ctx.tenant.k # "string"
  THEN [panic |-> TRUE, err |-> NoErr, req |-> NoReq]
  ELSE LET tenantID == IF ctx.tenant # NoTenant THEN ctx.tenant.s ELSE ""
           jsonData == MarshalPayload(query, variables)
       IN IF jsonData.err # NoErr
          THEN [panic |-> FALSE, req |-> NoReq,
                err |-> <<"failed to marshal GraphQL payload: ">> \o jsonData.err]
          ELSE IF c.baseURL = BadURL
          THEN [panic |-> FALSE, req |-> NoReq,
                err |-> <<"failed to create HTTP request: ", "parse ", c.baseURL,
                          ": missing protocol scheme">>]
          ELSE [panic |-> FALSE, err |-> NoErr,
                req |-> [sent |-> TRUE, method |-> "POST", url |-> c.baseURL,
                         header |-> ("Content-Type" :> "application/json")
                                      @@ ("X-Apito-Key" :> "")
                                      @@ ("Authorization" :> "Bearer " \o c.apiKey)
                                      @@ ("X-Apito-Tenant-ID" :> tenantID),
                         query |-> jsonData.query, variables |-> jsonData.variables]]

\* a mutant of executeGraphQLSend: the tenant id of the context is not sent
executeGraphQLSendWithoutTenant(c, ctx, query, variables) ==
  IF ctx.tenant # NoTenant /\ ctx.tenant.k # "string"
  THEN [panic |-> TRUE, err |-> NoErr, req |-> NoReq]
  ELSE LET tenantID == IF ctx.tenant # NoTenant THEN ctx.tenant.s ELSE ""
           jsonData == MarshalPayload(query, variables)
       IN IF jsonData.err # NoErr
          THEN [panic |-> FALSE, req |-> NoReq,
                err |-> <<"failed to marshal GraphQL payload: ">> \o jsonData.err]
          ELSE IF c.baseURL = BadURL
          THEN [panic |-> FALSE, req |-> NoReq,
                err |-> <<"failed to create HTTP request: ", "parse ", c.baseURL,
                          ": missing protocol scheme">>]
          ELSE [panic |-> FALSE, err |-> NoErr,
                req |-> [sent |-> TRUE, method |-> "POST", url |-> c.baseURL,
                         header |-> ("Content-Type" :> "application/json")
                                      @@ ("X-Apito-Key" :> c.apiKey)
                                      @@ ("X-Apito-Tenant-ID" :> ""),
                         query |-> jsonData.query, variables |-> jsonData.variables]]

\* a mutant of executeGraphQLSend: the tenant id is asserted with the comma-ok
\* form, and a value that is no string is taken as no tenant
executeGraphQLSendCommaOk(c, ctx, query, variables) ==
  IF FALSE
  THEN [panic |-> TRUE, err |-> NoErr, req |-> NoReq]
  ELSE LET tenantID == IF ctx.tenant.k = "string" THEN ctx.tenant.s ELSE ""
           jsonData == MarshalPayload(query, variables)
       IN IF jsonData.err # NoErr
          THEN [panic |-> FALSE, req |-> NoReq,
                err |-> <<"failed to marshal GraphQL payload: ">> \o jsonData.err]
          ELSE IF c.baseURL = BadURL
          THEN [panic |-> FALSE, req |-> NoReq,
                err |-> <<"failed to create HTTP request: ", "parse ", c.baseURL,
                          ": missing protocol scheme">>]
          ELSE [panic |-> FALSE, err |-> NoErr,
                req |-> [sent |-> TRUE, method |-> "POST", url |-> c.baseURL,
                         header |-> ("Content-Type" :> "application/json")
                                      @@ ("X-Apito-Key" :> c.apiKey)
                                      @@ ("X-Apito-Tenant-ID" :> tenantID),
                         query |-> jsonData.query, variables |-> jsonData.variables]]

\* [panic, err, req]: the failed type assertion of the tenant id, the error
\* returned before a request is sent, or the request handed to httpClient.Do
executeGraphQLSend(c, ctx, query, variables) ==
  IF ctx.tenant # NoTenant /\ ctx.tenant.k # "string"
  THEN [panic |-> TRUE, err |-> NoErr, req |-> NoReq]
  ELSE LET tenantID == IF ctx.tenant # NoTenant THEN ctx.tenant.s ELSE ""
           jsonData == MarshalPayload(query, variables)
       IN IF jsonData.err # NoErr
          THEN [panic |-> FALSE, req |-> NoReq,
                err |-> <<"failed to marshal GraphQL payload: ">> \o jsonData.err]
          ELSE IF c.baseURL = BadURL
          THEN [panic |-> FALSE, req |-> NoReq,
                err |-> <<"failed to create HTTP request: ", "parse ", c.baseURL,
                          ": missing protocol scheme">>]
          ELSE [panic |-> FALSE, err |-> NoErr,
                req |-> [sent |-> TRUE, method |-> "POST", url |-> c.baseURL,
                         header |-> ("Content-Type" :> "application/json")
                                      @@ ("X-Apito-Key" :> c.apiKey)
                                      @@ ("X-Apito-Tenant-ID" :> tenantID),
                         query |-> jsonData.query, variables |-> jsonData.variables]]

(***************************************************************************)
(* The answers of the server.  A JSON value of a response carries in s the *)
(* text it is written as.  A document is an object with the fields the     *)
(* queries ask for; the results of a search are a list of documents and    *)
(* nulls, and a count.                                                     *)
(***************************************************************************)
\* the text of a JSON value
Text(v) ==
  CASE v.k = "null" -> "null"
    [] v.k = "string" -> "\"" \o v.s \o "\""
    [] v.k = "number" -> ToString(v.n \div 10)
    [] OTHER -> v.s

\* the address of the MetaField a decoded document is given
NewAddr == 1

JDoc(id, data, expireAt, hasMeta) ==
  [k |-> "doc", n |-> 0, id |-> id, data |-> data, expire_at |-> expireAt, meta |-> hasMeta,
   s |-> "{\"id\":\"" \o id \o "\",\"type\":\"todo\",\"data\":" \o Text(data)
           \o ",\"expire_at\":\"" \o expireAt \o "\""
           \o (IF hasMeta THEN ",\"meta\":{\"status\":\"published\"}}" ELSE "}")]

RECURSIVE TextOfList(_, _)
TextOfList(items, j) ==
  IF j > Len(items) THEN ""
  ELSE (IF j > 1 THEN "," ELSE "") \o Text(items[j]) \o TextOfList(items, j + 1)

JResults(items, isNull, count) ==
  [k |-> "results", n |-> 0, items |-> items, isNull |-> isNull, count |-> count,
   s |-> "{\"results\":" \o (IF isNull THEN "null" ELSE "[" \o TextOfList(items, 1) \o "]")
           \o ",\"count\":" \o ToString(count) \o "}"]

JToken(token) ==
  [k |-> "tokenobject", n |-> 0, token |-> token, s |-> "{\"token\":" \o Text(token) \o "}"]

\* a document whose payload fits Todo and Product, one whose title is a
\* number, and one whose data is not an object
TitleDoc ==
  JDoc("t1", JMap([title |-> JStr("twenty")], "{\"title\":\"twenty\"}"), "2030-01-01T00:00:00Z",
       TRUE)

NumberTitleDoc == JDoc("t2", JMap([title |-> JNum(200)], "{\"title\":20}"), "", FALSE)

StringDataDoc == JDoc("t3", JStr("oops"), "", FALSE)

\* the values the server puts under the key of an operation
DocumentValues == {JNull, JNum(50), TitleDoc, NumberTitleDoc, StringDataDoc}

ResultsValues ==
  {JNull, JNum(50), JResults(<<>>, TRUE, 0), JResults(<<TitleDoc>>, FALSE, 1),
   JResults(<<TitleDoc, JNull>>, FALSE, 2), JResults(<<TitleDoc, NumberTitleDoc>>, FALSE, 5),
   JResults(<<NumberTitleDoc, JNull>>, FALSE, 2),
   JResults(<<StringDataDoc>>, FALSE, 1)}

TokenValues == {JNull, JStr("new-token"), JToken(JStr("new-token")), JToken(JNum(50))}

OtherValues == {JNull, JMap([message |-> JStr("done")], "{\"message\":\"done\"}")}

\* the key of the response data an operation reads
ResponseKey(op) ==
  CASE Untyped(op) = "GenerateTenantToken" -> "generateTenantToken"
    [] Untyped(op) = "GetSingleResource" -> "getSingleData"
    [] Untyped(op) \in {"SearchResources", "GetRelationDocuments"} -> "getModelData"
    [] Untyped(op) \in {"CreateNewResource", "UpdateResource"} -> "upsertModelData"
    [] Untyped(op) = "DeleteResource" -> "deleteModelData"
    [] Untyped(op) = "SendAuditLog" -> "sendAuditLog"
    [] OTHER -> "debug"

ValuesFor(op) ==
  CASE Untyped(op) = "GenerateTenantToken" -> TokenValues
    [] Untyped(op) \in {"GetSingleResource", "CreateNewResource", "UpdateResource"} ->
         DocumentValues
    [] Untyped(op) \in {"SearchResources", "GetRelationDocuments"} -> ResultsValues
    [] OTHER -> OtherValues

\* the data of a response to an operation: none, not an object, an object
\* without the key of the operation, or an object with it
DataFor(op) ==
  {JNull, JStr("oops"), JMap(<<>>, "{}")}
    \cup {JMap(ResponseKey(op) :> v, "{\"" \o ResponseKey(op) \o "\":" \o Text(v) \o "}") :
            v \in ValuesFor(op)}

\* an element of the errors of a response
JError(message, path) ==
  [k |-> "error", message |-> message, path |-> path,
   s |-> "{\"message\":" \o Text(message)
           \o (IF path = <<>> THEN "" ELSE ",\"path\":[\"" \o path[1] \o "\"]") \o "}"]

JErrors(items) ==
  [k |-> "array", items |-> items, s |-> ",\"errors\":[" \o TextOfList(items, 1) \o "]"]

\* the errors of a response: none, an empty list, lists of errors, a list with
\* an element whose message is not a string, and a value that is not a list
ErrorsValues ==
  {[k |-> "absent", items |-> <<>>, s |-> ""],
   JErrors(<<>>),
   JErrors(<<JError(JStr("Field not found"), <<>>)>>),
   JErrors(<<JError(JStr("not authorized"), <<"getModelData">>),
             JError(JStr("Field not found"), <<>>)>>),
   JErrors(<<JError(JNum(50), <<>>)>>),
   [k |-> "string", items |-> <<>>, s |-> ",\"errors\":\"Field not found\""]}

\* a body: its bytes as text, and the JSON value the text is
ObjectBody(data, errors) ==
  [text |-> "{\"data\":" \o Text(data) \o errors.s \o "}",
   json |-> [k |-> "object", data |-> data, errors |-> errors]]

PlainBody == [text |-> "Internal Server Error", json |-> [k |-> "invalid"]]

EmptyBody == [text |-> "", json |-> [k |-> "invalid"]]

NullBody == [text |-> "null", json |-> [k |-> "null"]]

ArrayBody == [text |-> "[]", json |-> [k |-> "array"]]

BodiesFor(op) ==
  {PlainBody, EmptyBody, NullBody, ArrayBody}
    \cup {ObjectBody(d, e) : d \in DataFor(op), e \in ErrorsValues}

\* the bodies sent with a status other than 200
ErrorBodiesFor(op) ==
  {PlainBody,
   ObjectBody(JNull, JErrors(<<JError(JStr("not authorized"), <<>>)>>)),
   ObjectBody(JMap(<<>>, "{}"), [k |-> "absent", items |-> <<>>, s |-> ""])}
    \cup {b \in BodiesFor(op) : b.json.k = "object" /\ b.json.data.k = "map"
                                  /\ b.json.errors.k = "absent"}

Statuses == {StatusOK, 201, 401, 500}

\* the outcomes of httpClient.Do and io.ReadAll for a request: Do fails (no
\* connection, the context cancelled, a timeout), the body cannot be read to
\* its end, or a status and a body arrive
TransportErrors == {"connection refused", "context canceled", "context deadline exceeded"}

NoOutcome == [kind |-> "none", status |-> 0, text |-> "", body |-> EmptyBody]

OutcomesFor(op) ==
  {[kind |-> "error", status |-> 0, text |-> t, body |-> EmptyBody] : t \in TransportErrors}
    \cup {[kind |-> "unread", status |-> st, text |-> "unexpected EOF", body |-> EmptyBody] :
            st \in Statuses}
    \cup {[kind |-> "answer", status |-> StatusOK, text |-> "", body |-> b] : b \in BodiesFor(op)}
    \cup {[kind |-> "answer", status |-> st, text |-> "", body |-> b] :
            st \in Statuses \ {StatusOK}, b \in ErrorBodiesFor(op)}

(***************************************************************************)
(* executeGraphQL from the return of httpClient.Do.                        *)
(***************************************************************************)
NilResponse == [nil |-> TRUE, Data |-> JNull, Errors |-> <<>>]

\* the elements of errors decoded into []GraphQLError
DecodeErrors(items) ==
  [j \in 1..Len(items) |->
     [Message |-> IF items[j].message.k = "string" THEN items[j].message.s ELSE "",
      Path |-> items[j].path, Extensions |-> NilMap]]

\* json.Unmarshal(body, &response)
UnmarshalResponse(body) ==
  CASE body.json.k = "invalid" ->
         [err |-> <<"invalid character or unexpected end of JSON input">>,
          response |-> NilResponse]
    [] body.json.k = "null" ->
         [err |-> NoErr, response |-> [nil |-> FALSE, Data |-> JNull, Errors |-> <<>>]]
    [] body.json.k = "array" ->
         [err |-> <<"json: cannot unmarshal ", "array", " into Go value of type ",
                    "goapitosdk.GraphQLResponse">>,
          response |-> NilResponse]
    [] OTHER ->
         LET errors == body.json.errors
         IN IF errors.k = "string"
            THEN [err |-> <<"json: cannot unmarshal ", "string", " into Go struct field ",
                            "GraphQLResponse.errors", " of type ", "[]goapitosdk.GraphQLError">>,
                  response |-> NilResponse]
            ELSE IF \E j \in 1..Len(errors.items) : errors.items[j].message.k # "string"
            THEN [err |-> <<"json: cannot unmarshal ", "number", " into Go struct field ",
                            "GraphQLResponse.errors.message", " of type ", "string">>,
                  response |-> NilResponse]
            ELSE [err |-> NoErr,
                  response |-> [nil |-> FALSE, Data |-> body.json.data,
                                Errors |-> DecodeErrors(errors.items)]]

\* %v of a []GraphQLError: [{Message Locations Path Extensions} ...]
RECURSIVE FormatErrors(_, _)
FormatErrors(errors, j) ==
  IF j > Len(errors) THEN <<"]">>
  ELSE (IF j = 1 THEN <<"[">> ELSE <<" ">>)
         \o <<"{", errors[j].Message, " ", "[]", " ", "[">> \o errors[j].Path
         \o <<"]", " ", "map[]", "}">> \o FormatErrors(errors, j + 1)

\* a mutant of HTTPError: the body is left out of the message
HTTPErrorWithoutBody(status, body) == <<"HTTP error ", ToString(status)>>

\* fmt.Errorf("HTTP error %d: %s", resp.StatusCode, string(body))
HTTPError(status, body) == <<"HTTP error ", ToString(status), ": ", body.text>>

\* a mutant of HasErrors: the errors count only when there is no data
HasErrorsWithoutData(response) == Len(response.Errors) > 0 /\ response.Data = JNull

\* len(response.Errors) > 0
HasErrors(response) == Len(response.Errors) > 0

\* a mutant of executeGraphQLReceive: every status from 200 to 299 is accepted
executeGraphQLReceive2xx(outcome) ==
  IF outcome.kind = "error"
  THEN [response |-> NilResponse,
        err |-> <<"failed to execute HTTP request: ", outcome.text>>]
  ELSE IF outcome.kind = "unread"
  THEN [response |-> NilResponse,
        err |-> <<"failed to read response body: ", outcome.text>>]
  ELSE IF outcome.status \notin 200..299
  THEN [response |-> NilResponse, err |-> HTTPError(outcome.status, outcome.body)]
  ELSE LET r == UnmarshalResponse(outcome.body)
       IN IF r.err # NoErr
          THEN [response |-> NilResponse,
                err |-> <<"failed to unmarshal GraphQL response: ">> \o r.err]
          ELSE IF HasErrors(r.response)
          THEN [response |-> r.response,
                err |-> <<"GraphQL errors", ": ">> \o FormatErrors(r.response.Errors, 1)]
          ELSE [response |-> r.response, err |-> NoErr]

\* [response, err]
executeGraphQLReceive(outcome) ==
  IF outcome.kind = "error"
  THEN [response |-> NilResponse,
        err |-> <<"failed to execute HTTP request: ", outcome.text>>]
  ELSE IF outcome.kind = "unread"
  THEN [response |-> NilResponse,
        err |-> <<"failed to read response body: ", outcome.text>>]
  ELSE IF outcome.status # StatusOK
  THEN [response |-> NilResponse, err |-> HTTPError(outcome.status, outcome.body)]
  ELSE LET r == UnmarshalResponse(outcome.body)
       IN IF r.err # NoErr
          THEN [response |-> NilResponse,
                err |-> <<"failed to unmarshal GraphQL response: ">> \o r.err]
          ELSE IF HasErrors(r.response)
          THEN [response |-> r.response,
                err |-> <<"GraphQL errors", ": ">> \o FormatErrors(r.response.Errors, 1)]
          ELSE [response |-> r.response, err |-> NoErr]

(***************************************************************************)
(* The operations from the return of executeGraphQL: ex is its [response,  *)
(* err].  Each returns [val, err].                                         *)
(***************************************************************************)
\* the value of an operation that returns an error alone
NoVal == [k |-> "none", s |-> "", n |-> 0]

\* a pointer to a zero shared.DefaultDocumentStructure
ZeroDoc == [NilDoc EXCEPT !.nil = FALSE]

NilSearchResult == [nil |-> TRUE, ResultsNil |-> TRUE, Results |-> <<>>, Count |-> 0]

\* a mutant of UnmarshalDocument: null is no document
UnmarshalDocumentNotFound(v) ==
  CASE v.k = "null" -> [err |-> <<"document not found">>, doc |-> NilDoc]
    [] v.k = "doc" ->
         IF v.data.k \in {"map", "null"}
         THEN [err |-> NoErr,
               doc |-> [nil |-> FALSE, Key |-> "",
                        Data |-> IF v.data.k = "map" THEN v.data.m ELSE NilMap,
                        Meta |-> IF v.meta THEN NewAddr ELSE NilAddr,
                        ID |-> v.id, ExpireAt |-> v.expire_at, RelationDocID |-> "",
                        Type |-> "todo"]]
         ELSE [err |-> <<"json: cannot unmarshal ", v.data.k, " into Go struct field ",
                         "DefaultDocumentStructure.data", " of type ",
                         "map[string]interface {}">>,
               doc |-> NilDoc]
    [] OTHER ->
         [err |-> <<"json: cannot unmarshal ", v.k, " into Go value of type ",
                    "shared.DefaultDocumentStructure">>,
          doc |-> NilDoc]

\* json.Marshal of the value under the key and json.Unmarshal of the text into
\* a shared.DefaultDocumentStructure
UnmarshalDocument(v) ==
  CASE v.k = "null" -> [err |-> NoErr, doc |-> ZeroDoc]
    [] v.k = "doc" ->
         IF v.data.k \in {"map", "null"}
         THEN [err |-> NoErr,
               doc |-> [nil |-> FALSE, Key |-> "",
                        Data |-> IF v.data.k = "map" THEN v.data.m ELSE NilMap,
                        Meta |-> IF v.meta THEN NewAddr ELSE NilAddr,
                        ID |-> v.id, ExpireAt |-> v.expire_at, RelationDocID |-> "",
                        Type |-> "todo"]]
         ELSE [err |-> <<"json: cannot unmarshal ", v.data.k, " into Go struct field ",
                         "DefaultDocumentStructure.data", " of type ",
                         "map[string]interface {}">>,
               doc |-> NilDoc]
    [] OTHER ->
         [err |-> <<"json: cannot unmarshal ", v.k, " into Go value of type ",
                    "shared.DefaultDocumentStructure">>,
          doc |-> NilDoc]

\* the same into a SearchResult: a null element is a nil pointer
UnmarshalSearchResult(v) ==
  CASE v.k = "null" ->
         [err |-> NoErr,
          val |-> [nil |-> FALSE, ResultsNil |-> TRUE, Results |-> <<>>, Count |-> 0]]
    [] v.k = "results" ->
         IF \E j \in 1..Len(v.items) : UnmarshalDocument(v.items[j]).err # NoErr
         THEN [err |-> UnmarshalDocument(
                         v.items[CHOOSE j \in 1..Len(v.items) :
                                   /\ UnmarshalDocument(v.items[j]).err # NoErr
                                   /\ \A h \in 1..(j - 1) :
                                        UnmarshalDocument(v.items[h]).err = NoErr]).err,
               val |-> NilSearchResult]
         ELSE [err |-> NoErr,
               val |-> [nil |-> FALSE, ResultsNil |-> v.isNull,
                        Results |-> [j \in 1..Len(v.items) |->
                                       IF v.items[j].k = "null" THEN NilDoc
                                       ELSE UnmarshalDocument(v.items[j]).doc],
                        Count |-> v.count]]
    [] OTHER ->
         [err |-> <<"json: cannot unmarshal ", v.k, " into Go value of type ",
                    "goapitosdk.SearchResult">>,
          val |-> NilSearchResult]

\* data, ok := response.Data.(map[string]interface{})
IsMap(v) == v.k = "map"

GenerateTenantTokenResult(ex) ==
  IF ex.err # NoErr
  THEN [val |-> JStr(""), err |-> <<"failed to generate tenant token: ">> \o ex.err]
  ELSE IF ~IsMap(ex.response.Data)
  THEN [val |-> JStr(""), err |-> <<"unexpected response format">>]
  ELSE LET data == ex.response.Data.m
       IN IF "generateTenantToken" \notin DOMAIN data
             \/ data["generateTenantToken"].k # "tokenobject"
          THEN [val |-> JStr(""), err |-> <<"unexpected response format">>]
          ELSE IF data["generateTenantToken"].token.k # "string"
          THEN [val |-> JStr(""), err |-> <<"unexpected token format">>]
          ELSE [val |-> data["generateTenantToken"].token, err |-> NoErr]

\* the steps GetSingleResource, CreateNewResource and UpdateResource share
DocumentResult(ex, failed, key) ==
  IF ex.err # NoErr THEN [val |-> NilDoc, err |-> <<failed>> \o ex.err]
  ELSE IF ~IsMap(ex.response.Data)
  THEN [val |-> NilDoc, err |-> <<"unexpected response format">>]
  ELSE IF key \notin DOMAIN ex.response.Data.m
  THEN [val |-> NilDoc, err |-> <<key, " not found in response">>]
  ELSE LET document == UnmarshalDocument(ex.response.Data.m[key])
       IN IF document.err # NoErr
          THEN [val |-> NilDoc, err |-> <<"failed to unmarshal getSingleData: ">> \o document.err]
          ELSE [val |-> document.doc, err |-> NoErr]

GetSingleResourceResult(ex) ==
  DocumentResult(ex, "failed to get single resource: ", "getSingleData")

CreateNewResourceResult(ex) ==
  DocumentResult(ex, "failed to create new resource: ", "upsertModelData")

UpdateResourceResult(ex) ==
  DocumentResult(ex, "failed to update resource: ", "upsertModelData")

\* the steps SearchResources and GetRelationDocuments share
SearchResult(ex, failed) ==
  IF ex.err # NoErr THEN [val |-> NilSearchResult, err |-> <<failed>> \o ex.err]
  ELSE IF ~IsMap(ex.response.Data)
  THEN [val |-> NilSearchResult, err |-> <<"unexpected response format">>]
  ELSE IF "getModelData" \notin DOMAIN ex.response.Data.m
  THEN [val |-> NilSearchResult, err |-> <<"getModelData", " not found in response">>]
  ELSE LET searchResult == UnmarshalSearchResult(ex.response.Data.m["getModelData"])
       IN IF searchResult.err # NoErr
          THEN [val |-> NilSearchResult,
                err |-> <<"failed to unmarshal getModelData: ">> \o searchResult.err]
          ELSE [val |-> searchResult.val, err |-> NoErr]

SearchResourcesResult(ex) == SearchResult(ex, "failed to search resources: ")

GetRelationDocumentsResult(ex) == SearchResult(ex, "failed to get relation documents: ")

\* a mutant of DeleteResourceResult: the error of executeGraphQL is dropped
DeleteResourceResultSwallowing(ex) == [val |-> NoVal, err |-> NoErr]

DeleteResourceResult(ex) ==
  IF ex.err # NoErr THEN [val |-> NoVal, err |-> <<"failed to delete resource: ">> \o ex.err]
  ELSE [val |-> NoVal, err |-> NoErr]

\* a mutant of SendAuditLogResult: the key of the mutation is looked for
SendAuditLogResultChecking(ex) ==
  IF ex.err # NoErr THEN [val |-> NoVal, err |-> <<"failed to send audit log: ">> \o ex.err]
  ELSE IF ~IsMap(ex.response.Data)
  THEN [val |-> NoVal, err |-> <<"unexpected response format">>]
  ELSE IF "sendAuditLog" \notin DOMAIN ex.response.Data.m
  THEN [val |-> NoVal, err |-> <<"sendAuditLog", " not found in response">>]
  ELSE [val |-> NoVal, err |-> NoErr]

SendAuditLogResult(ex) ==
  IF ex.err # NoErr THEN [val |-> NoVal, err |-> <<"failed to send audit log: ">> \o ex.err]
  ELSE [val |-> NoVal, err |-> NoErr]

DebugResult(ex) ==
  IF ex.err # NoErr THEN [val |-> JNull, err |-> <<"failed to debug: ">> \o ex.err]
  ELSE IF ~IsMap(ex.response.Data)
  THEN [val |-> JNull, err |-> <<"unexpected response format">>]
  ELSE [val |-> IF "debug" \in DOMAIN ex.response.Data.m THEN ex.response.Data.m["debug"]
                ELSE JNull,
        err |-> NoErr]

UntypedResult(op, ex) ==
  CASE Untyped(op) = "GenerateTenantToken" -> GenerateTenantTokenResult(ex)
    [] Untyped(op) = "GetSingleResource" -> GetSingleResourceResult(ex)
    [] Untyped(op) = "SearchResources" -> SearchResourcesResult(ex)
    [] Untyped(op) = "GetRelationDocuments" -> GetRelationDocumentsResult(ex)
    [] Untyped(op) = "CreateNewResource" -> CreateNewResourceResult(ex)
    [] Untyped(op) = "UpdateResource" -> UpdateResourceResult(ex)
    [] Untyped(op) = "DeleteResource" -> DeleteResourceResult(ex)
    [] Untyped(op) = "SendAuditLog" -> SendAuditLogResult(ex)
    [] OTHER -> DebugResult(ex)

\* convertToTypedSearchResult[T](rawResults): [panic, results, err]
RECURSIVE convertResultsFrom(_, _, _, _)
convertResultsFrom(raw, T, j, results) ==
  IF j > Len(raw.Results) THEN [panic |-> FALSE, results |-> results, err |-> NoErr]
  ELSE LET r == convertToTypedDocument(raw.Results[j], T)
       IN IF r.panic THEN [panic |-> TRUE, results |-> NilTypedResults, err |-> NoErr]
          ELSE IF r.err # NoErr
          THEN [panic |-> FALSE, results |-> NilTypedResults, err |-> IndexError(j, r.err)]
          ELSE convertResultsFrom(raw, T, j + 1, StoreTyped(results, j, r.doc))

convertToTypedSearchResult(raw, T) == convertResultsFrom(raw, T, 1, NewTypedResults(raw))

DocumentOperations == {"GetSingleResourceTyped", "CreateNewResourceTyped", "UpdateResourceTyped"}

\* what an operation returns when it returns before or without its data
ZeroResult(op) ==
  CASE op = "GenerateTenantToken" -> JStr("")
    [] op \in {"GetSingleResource", "CreateNewResource", "UpdateResource"} -> NilDoc
    [] op \in {"SearchResources", "GetRelationDocuments"} -> NilSearchResult
    [] op \in {"DeleteResource", "SendAuditLog"} -> NoVal
    [] op = "Debug" -> JNull
    [] op \in DocumentOperations -> NilTyped
    [] OTHER -> NilTypedResults

\* a mutant of ResultOf: one of the five call sites wraps the error of its
\* untyped operation
ResultOfWrapping(op, T, raw) ==
  IF op \in UntypedOperations THEN [val |-> raw.val, err |-> raw.err, panic |-> FALSE]
  ELSE IF raw.err # NoErr
  THEN [val |-> ZeroResult(op), panic |-> FALSE,
        err |-> IF op = "UpdateResourceTyped" THEN <<"typed update failed: ">> \o raw.err
                ELSE raw.err]
  ELSE IF op \in DocumentOperations
  THEN LET r == convertToTypedDocument(raw.val, T)
       IN [val |-> r.doc, err |-> r.err, panic |-> r.panic]
  ELSE LET r == convertToTypedSearchResult(raw.val, T)
       IN [val |-> r.results, err |-> r.err, panic |-> r.panic]

\* a typed operation: the error of the untyped one as it is, or its value
\* converted; an untyped operation: its result.  [val, err, panic]
ResultOf(op, T, raw) ==
  IF op \in UntypedOperations THEN [val |-> raw.val, err |-> raw.err, panic |-> FALSE]
  ELSE IF raw.err # NoErr THEN [val |-> ZeroResult(op), err |-> raw.err, panic |-> FALSE]
  ELSE IF op \in DocumentOperations
  THEN LET r == convertToTypedDocument(raw.val, T)
       IN [val |-> r.doc, err |-> r.err, panic |-> r.panic]
  ELSE LET r == convertToTypedSearchResult(raw.val, T)
       IN [val |-> r.results, err |-> r.err, panic |-> r.panic]

(***************************************************************************)
(* The calls.                                                              *)
(***************************************************************************)
Callers == {"g1", "g2"}

\* the goroutine that uses the client in Spec
Main == "g1"

NoRes == [val |-> NoVal, err |-> NoErr, panic |-> FALSE]

\* a call not made yet; before tells how the call of the goroutine before it
\* ended ("none" for the first), done is ctx.Err() ("" for nil)
IdleCall ==
  [pc |-> "idle", op |-> "", args |-> <<>>, ctx |-> [tenant |-> NoTenant], T |-> Todo,
   req |-> NoReq, nreq |-> 0, outcome |-> NoOutcome, res |-> NoRes, before |-> "none",
   done |-> ""]

\* how an ended call ended
EndOf(cl) ==
  IF cl.pc = "panicked" THEN "panicked"
  ELSE IF cl.res.err # NoErr THEN "failed"
  ELSE "succeeded"

InitClient ==
  /\ config = NoConfig
  /\ client = NoClient
  /\ calls = [c \in Callers |-> IdleCall]

Init == InitConv /\ InitClient

\* the arguments of the operations
Requests ==
  [Model : {"", "todo"}, ID : {"", "t1"},
   Payload : {NilMap, [title |-> JStr("twenty")], [price |-> NaN]},
   Connect : {NilMap, [user |-> JStr("u1")]}, Disconnect : {NilMap},
   SinglePageData : {FALSE}, ForceUpdate : {FALSE}]

Filters ==
  {NilMap,
   [page |-> JNum(10), search |-> JStr("twenty")],
   [limit |-> JNum(100), where |-> JMap([status |-> JStr("active")], ""),
    offset |-> JNum(100), sort |-> JStr("asc")]}

Connections ==
  {NilMap, [model |-> JStr("todo")], [model |-> JNum(50)],
   [model |-> JStr("todo"), filter |-> JMap([page |-> JNum(10)], "")]}

ArgsOf(op) ==
  CASE Untyped(op) = "GenerateTenantToken" -> [token : {"tok"}, tenantID : {"tenant-1"}]
    [] Untyped(op) = "GetSingleResource" ->
         [model : {"todo"}, id : {"t1"}, singlePageData : BOOLEAN]
    [] Untyped(op) = "SearchResources" ->
         [model : {"todo"}, filter : Filters, aggregate : BOOLEAN]
    [] Untyped(op) = "GetRelationDocuments" -> [id : {"u1", "u2"}, connection : Connections]
    [] Untyped(op) \in {"CreateNewResource", "UpdateResource"} -> Requests
    [] Untyped(op) = "DeleteResource" -> [model : {"todo"}, id : {"t1"}]
    [] Untyped(op) = "SendAuditLog" ->
         [auditData : {[k |-> "audit", s |-> "", n |-> 0, Resource |-> "todo",
                        Action |-> "create"]}]
    [] OTHER ->
         [stage : {"before"},
          data : {[k |-> "list", s |-> "", n |-> 0, items |-> <<>>],
                  [k |-> "list", s |-> "", n |-> 0, items |-> <<JStr("x")>>]}]

ShapesOf(op) == IF op \in TypedOperations THEN {Todo, Product} ELSE {Todo}

Invocations ==
  UNION {{<<op, a, T, ctx>> : a \in ArgsOf(op), T \in ShapesOf(op), ctx \in Contexts} :
           op \in Operations}

\* client := NewClient(config)
Construct(cfg) ==
  /\ client.nil
  /\ config' = cfg
  /\ client' = NewClient(cfg)
  /\ UNCHANGED calls
  /\ UNCHANGED convVars

\* goroutine c calls an operation, which runs until it has handed its request
\* to httpClient.Do, has returned an error, or has panicked
Invoke(c, op, args, ctx, T) ==
  /\ ~client.nil
  /\ calls[c].pc = "idle"
  /\ LET rq == RequestOf(op, args)
         sd == executeGraphQLSend(client, ctx, rq.query, rq.variables)
         started == [calls[c] EXCEPT !.op = op, !.args = args, !.ctx = ctx, !.T = T]
     IN calls' =
          [calls EXCEPT ![c] =
             IF rq.err # NoErr
             THEN [started EXCEPT !.pc = "returned",
                                  !.res = [val |-> ZeroResult(op), err |-> rq.err,
                                           panic |-> FALSE]]
             ELSE IF sd.panic
             THEN [started EXCEPT !.pc = "panicked",
                                  !.res = [val |-> NoVal, err |-> NoErr, panic |-> TRUE]]
             ELSE IF sd.err # NoErr
             THEN [started EXCEPT !.pc = "returned",
                                  !.res = ResultOf(op, T,
                                            UntypedResult(op, [response |-> NilResponse,
                                                               err |-> sd.err]))]
             ELSE [started EXCEPT !.pc = "waiting", !.req = sd.req, !.nreq = 1]]
  /\ UNCHANGED <<config, client>>
  /\ UNCHANGED convVars

\* ctx.Err() once the context is done
ContextErrors == {"context canceled", "context deadline exceeded"}

\* the context of the call of goroutine c is cancelled, or its deadline
\* passes, while httpClient.Do has the request
Cancel(c, why) ==
  /\ calls[c].pc = "waiting"
  /\ calls[c].done = ""
  /\ calls' = [calls EXCEPT ![c].done = why]
  /\ UNCHANGED <<config, client>>
  /\ UNCHANGED convVars

\* a mutant of Arrivals: the request is made without the context
ArrivalsWithoutContext(cl) == OutcomesFor(cl.op)

\* what httpClient.Do and io.ReadAll can still give for the request of call
\* cl, made with the context: once the context is done, Do fails with
\* ctx.Err(), or the body cannot be read to its end
Arrivals(cl) ==
  IF cl.done = "" THEN OutcomesFor(cl.op)
  ELSE {o \in OutcomesFor(cl.op) :
          \/ o.kind = "error" /\ o.text = cl.done
          \/ o.kind = "unread"}

\* a mutant of Respond: after an error the request is sent once more
RespondRetrying(c, outcome) ==
  /\ calls[c].pc = "waiting"
  /\ LET res == ResultOf(calls[c].op, calls[c].T,
                         UntypedResult(calls[c].op, executeGraphQLReceive(outcome)))
     IN calls' = IF res.err # NoErr /\ calls[c].nreq < 2
                 THEN [calls EXCEPT ![c].nreq = calls[c].nreq + 1]
                 ELSE [calls EXCEPT ![c].outcome = outcome,
                                    ![c].res = res,
                                    ![c].pc = IF res.panic THEN "panicked" ELSE "returned"]
  /\ UNCHANGED <<config, client>>
  /\ UNCHANGED convVars

\* a mutant of Respond: the response is decoded as the answer to the call of
\* the other goroutine when that one is in flight too
RespondCrossed(c, outcome) ==
  /\ calls[c].pc = "waiting"
  /\ LET d == CHOOSE d \in Callers : d # c
         from == IF calls[d].pc = "waiting" THEN d ELSE c
         res == ResultOf(calls[from].op, calls[from].T,
                         UntypedResult(calls[from].op, executeGraphQLReceive(outcome)))
     IN calls' = [calls EXCEPT ![c].outcome = outcome,
                               ![c].res = res,
                               ![c].pc = IF res.panic THEN "panicked" ELSE "returned"]
  /\ UNCHANGED <<config, client>>
  /\ UNCHANGED convVars

\* httpClient.Do returns to goroutine c, and the operation runs to its end
Respond(c, outcome) ==
  /\ calls[c].pc = "waiting"
  /\ LET res == ResultOf(calls[c].op, calls[c].T,
                         UntypedResult(calls[c].op, executeGraphQLReceive(outcome)))
     IN calls' = [calls EXCEPT ![c].outcome = outcome,
                               ![c].res = res,
                               ![c].pc = IF res.panic THEN "panicked" ELSE "returned"]
  /\ UNCHANGED <<config, client>>
  /\ UNCHANGED convVars

\* a mutant of Reset: a call that failed leaves the client without its key
ResetPoisoning(c) ==
  /\ calls[c].pc \in {"returned", "panicked"}
  /\ calls' = [calls EXCEPT ![c] = [IdleCall EXCEPT !.before = EndOf(calls[c])]]
  /\ client' = IF EndOf(calls[c]) = "failed" THEN [client EXCEPT !.apiKey = ""] ELSE client
  /\ UNCHANGED config
  /\ UNCHANGED convVars

\* goroutine c goes on after its call (a panic recovered by the caller)
Reset(c) ==
  /\ calls[c].pc \in {"returned", "panicked"}
  /\ calls' = [calls EXCEPT ![c] = [IdleCall EXCEPT !.before = EndOf(calls[c])]]
  /\ UNCHANGED <<config, client>>
  /\ UNCHANGED convVars

Next ==
  \/ /\ client.nil
     /\ \E cfg \in Configs : Construct(cfg)
  \/ /\ ~client.nil
     /\ calls[Main].pc = "idle"
     /\ \E in \in Invocations : Invoke(Main, in[1], in[2], in[4], in[3])
  \/ /\ calls[Main].pc = "waiting"
     /\ \E outcome \in Arrivals(calls[Main]) : Respond(Main, outcome)
  \/ \E why \in ContextErrors : Cancel(Main, why)
  \/ Reset(Main)

\* httpClient.Do returns once the context of its request is done
EndCancelled ==
  /\ calls[Main].done # ""
  /\ \E outcome \in Arrivals(calls[Main]) : Respond(Main, outcome)

\* the calls goroutines make on one client at the same time: a typed read
\* for a tenant, and a deletion under every context
ConcInvocations ==
  {in \in Invocations :
     \/ /\ in[1] = "GetSingleResourceTyped"
        /\ ~in[2].singlePageData
        /\ in[3] = Todo
        /\ in[4].tenant = JStr("tenant-1")
     \/ in[1] = "DeleteResource"}

\* the outcomes of their requests: the context cancelled, a status 500, an
\* answer with the data of the operation, an answer with errors
ConcOutcomes(op) ==
  {o \in OutcomesFor(op) :
     \/ o.kind = "error" /\ o.text = "context canceled"
     \/ o.kind = "answer" /\ o.status = 500 /\ o.body = PlainBody
     \/ /\ o.kind = "answer"
        /\ o.status = StatusOK
        /\ o.body.json.k = "object"
        /\ \/ o.body.json.data.k = "map" /\ o.body.json.errors.k = "absent"
           \/ o.body.json.data = JNull /\ o.body.json.errors.k = "array"
              /\ Len(o.body.json.errors.items) = 1}

\* every goroutine calls the client whenever it likes, and the responses
\* arrive in any order
NextConc ==
  \/ /\ client.nil
     /\ \E cfg \in Configs : Construct(cfg)
  \/ \E c \in Callers :
       /\ ~client.nil
       /\ calls[c].pc = "idle"
       /\ \E in \in ConcInvocations : Invoke(c, in[1], in[2], in[4], in[3])
  \/ \E c \in Callers :
       /\ calls[c].pc = "waiting"
       /\ \E outcome \in ConcOutcomes(calls[c].op) : Respond(c, outcome)
  \/ \E c \in Callers : Reset(c)

\* the conversion layer on its own
SpecConv == Init /\ [][NextConv]_vars

\* one goroutine using a client
Spec == Init /\ [][Next]_vars

\* one goroutine using a client whose HTTP client honours the context
SpecCancel == Init /\ [][Next]_vars /\ WF_vars(EndCancelled)

\* the goroutines of Callers using one client
SpecConc == Init /\ [][NextConc]_vars

(***************************************************************************)
(* Properties of the transport.                                            *)
(***************************************************************************)
\* the call of goroutine c has ended after a status and a body had arrived
Answered(c) == calls[c].pc \in {"returned", "panicked"} /\ calls[c].outcome.kind = "answer"

\* C9: whatever the operation, when a status outside 200..299 has arrived with
\* its body, the call returns an error whose message contains "HTTP error "
\* followed by the status, and the text of the body, and it returns no data.
C9_HTTPErrorOnNon2xx ==
  \A c \in Callers :
    (Answered(c) /\ calls[c].outcome.status \notin 200..299) =>
      /\ calls[c].pc = "returned"
      /\ Contains(calls[c].res.err, <<"HTTP error ", ToString(calls[c].outcome.status)>>)
      /\ Contains(calls[c].res.err, <<calls[c].outcome.body.text>>)
      /\ calls[c].res.val = ZeroResult(calls[c].op)

\* a typed search has been answered 500 with a body that is no JSON
C9_Witness ==
  /\ Answered(Main)
  /\ calls[Main].op = "SearchResourcesTyped"
  /\ calls[Main].outcome.status = 500
  /\ calls[Main].outcome.body = PlainBody
  /\ calls[Main].res.err = <<"failed to search resources: ", "HTTP error ", "500", ": ",
                             "Internal Server Error">>
  /\ calls[Main].res.val = NilTypedResults

\* the errors the body of the answer to goroutine c lists, if it lists any
RemoteErrors(c) ==
  IF calls[c].outcome.body.json.k = "object" /\ calls[c].outcome.body.json.errors.k = "array"
  THEN calls[c].outcome.body.json.errors.items
  ELSE <<>>

\* C10: whatever the operation, when status 200 has arrived with a body whose
\* errors are a non-empty list of errors with their messages, the call returns
\* an error whose message contains "GraphQL errors" and the message of every
\* one of them, and it returns no data, whether or not the body has data.
C10_GraphQLErrorsFail ==
  \A c \in Callers :
    (/\ Answered(c)
     /\ calls[c].outcome.status = StatusOK
     /\ RemoteErrors(c) # <<>>
     /\ \A j \in 1..Len(RemoteErrors(c)) : RemoteErrors(c)[j].message.k = "string") =>
      /\ calls[c].pc = "returned"
      /\ Contains(calls[c].res.err, <<"GraphQL errors">>)
      /\ \A j \in 1..Len(RemoteErrors(c)) :
           Contains(calls[c].res.err, <<RemoteErrors(c)[j].message.s>>)
      /\ calls[c].res.val = ZeroResult(calls[c].op)

\* GetSingleResource has been answered 200 with a document and two errors
C10_Witness ==
  /\ Answered(Main)
  /\ calls[Main].op = "GetSingleResource"
  /\ calls[Main].outcome.status = StatusOK
  /\ calls[Main].outcome.body.json.k = "object"
  /\ calls[Main].outcome.body.json.data = JMap("getSingleData" :> TitleDoc,
                                               "{\"getSingleData\":" \o Text(TitleDoc) \o "}")
  /\ Len(RemoteErrors(Main)) = 2
  /\ Contains(calls[Main].res.err, <<"not authorized">>)
  /\ Contains(calls[Main].res.err, <<"Field not found">>)
  /\ calls[Main].res.val = NilDoc

(***************************************************************************)
(* The dynamic type of an error.  Every error client.go makes is made by   *)
(* fmt.Errorf: with %w it is a *fmt.wrapError around the error it was      *)
(* given, whose message follows the prefix of the format; without %w it is *)
(* an *errors.errorString.  The errors it is given come from encoding/json,*)
(* net/http and io.                                                        *)
(***************************************************************************)
\* the prefixes of the formats that end in %w
WrappingPrefixes ==
  {"failed to marshal GraphQL payload: ", "failed to create HTTP request: ",
   "failed to execute HTTP request: ", "failed to read response body: ",
   "failed to unmarshal GraphQL response: ", "failed to generate tenant token: ",
   "failed to marshal raw data: ", "failed to unmarshal to typed data: ",
   "failed to get single resource: ", "failed to unmarshal getSingleData: ",
   "failed to search resources: ", "failed to unmarshal getModelData: ",
   "failed to get relation documents: ", "failed to create new resource: ",
   "failed to update resource: ", "failed to delete resource: ",
   "failed to send audit log: ", "failed to debug: "}

\* errors.Unwrap(err): the error a *fmt.wrapError was given, nil for another
Unwrap(err) ==
  IF err = NoErr THEN NoErr
  ELSE IF err[1] = "failed to convert document at index " THEN SubSeq(err, 4, Len(err))
  ELSE IF err[1] \in WrappingPrefixes THEN Tail(err)
  ELSE NoErr

\* the dynamic type of an error value
DynamicType(err) ==
  IF err = NoErr THEN "nil"
  ELSE IF Unwrap(err) # NoErr THEN "*fmt.wrapError"
  ELSE IF err[1] = "json: cannot unmarshal " THEN "*json.UnmarshalTypeError"
  ELSE IF err[1] = "json: unsupported value: " THEN "*json.UnsupportedValueError"
  ELSE IF err[1] = "invalid character or unexpected end of JSON input"
  THEN "*json.SyntaxError"
  ELSE IF err[1] = "parse " \/ err[1] \in TransportErrors THEN "*url.Error"
  ELSE "*errors.errorString"

\* the answer to goroutine c was 200 with a non-empty list of errors, each
\* with its message
FailedByGraphQLErrors(c) ==
  /\ Answered(c)
  /\ calls[c].outcome.status = StatusOK
  /\ RemoteErrors(c) # <<>>
  /\ \A j \in 1..Len(RemoteErrors(c)) : RemoteErrors(c)[j].message.k = "string"

\* C11: when an operation fails because the answer lists GraphQL errors, the
\* error it returns is a *GraphQLError (so that err.(*GraphQLError) succeeds);
\* after a failure of the transport or a status other than 200 the error is of
\* another type.
C11_GraphQLErrorValue ==
  \A c \in Callers :
    /\ FailedByGraphQLErrors(c) =>
         DynamicType(calls[c].res.err) = "*goapitosdk.GraphQLError"
    /\ (calls[c].pc = "returned" /\ calls[c].outcome.kind \in {"error", "unread"}) =>
         DynamicType(calls[c].res.err) \notin {"nil", "*goapitosdk.GraphQLError"}
    /\ (Answered(c) /\ calls[c].outcome.status # StatusOK) =>
         DynamicType(calls[c].res.err) \notin {"nil", "*goapitosdk.GraphQLError"}

(***************************************************************************)
(* Properties of the operations.                                           *)
(***************************************************************************)
\* the call of goroutine c has ended after executeGraphQL returned a response
\* and no error
TransportSucceeded(c) ==
  Answered(c) /\ executeGraphQLReceive(calls[c].outcome).err = NoErr

\* the data of the response executeGraphQL returned to goroutine c
ResponseData(c) == executeGraphQLReceive(calls[c].outcome).response.Data

\* the operations that read a value of the data of the response
ExtractingOperations == Operations \ {"DeleteResource", "SendAuditLog"}

\* the errors for a response of the wrong shape
ShapeErrors(op) ==
  {<<"unexpected response format">>, <<ResponseKey(op), " not found in response">>}

\* C12: for every operation that reads a value of the response, a response
\* returned without error whose data is not a key-value mapping, or is one
\* without the key of the operation, makes the call return a shape error and
\* no result.
C12_ShapeErrorWithoutKey ==
  \A c \in Callers :
    (/\ TransportSucceeded(c)
     /\ calls[c].op \in ExtractingOperations
     /\ \/ ~IsMap(ResponseData(c))
        \/ ResponseKey(calls[c].op) \notin DOMAIN ResponseData(c).m) =>
      /\ calls[c].pc = "returned"
      /\ calls[c].res.err \in ShapeErrors(calls[c].op)
      /\ calls[c].res.val = ZeroResult(calls[c].op)

\* C13: an invocation of an operation, typed or untyped, hands at most one
\* request to the HTTP client: none when it returns or panics before the
\* request is made, and one, however the call ends, when it was made.
C13_AtMostOneRequest ==
  \A c \in Callers :
    /\ calls[c].nreq <= 1
    /\ calls[c].nreq = (IF calls[c].req.sent THEN 1 ELSE 0)
    /\ calls[c].outcome.kind # "none" => calls[c].nreq = 1

\* a typed operation has returned the error of a request that failed, having
\* sent that request alone
C13_Witness ==
  /\ calls[Main].pc = "returned"
  /\ calls[Main].op = "SearchResourcesTyped"
  /\ calls[Main].outcome.kind = "error"
  /\ calls[Main].res.err # NoErr
  /\ calls[Main].nreq = 1

\* the call of goroutine c has ended after one of the steps of the transport
\* failed: the request was not made, it was not answered, the body was not
\* read, the status was not 200, the body was not JSON, or it listed errors
TransportFailed(c) ==
  \/ calls[c].pc = "returned" /\ ~calls[c].req.sent
  \/ calls[c].outcome.kind \in {"error", "unread"}
  \/ /\ calls[c].outcome.kind = "answer"
     /\ \/ calls[c].outcome.status # StatusOK
        \/ calls[c].outcome.body.json.k = "invalid"
        \/ RemoteErrors(c) # <<>>

\* C14: whatever the operation, when a step of the transport failed the call
\* returns an error and its nil or zero value; and a call returns no error
\* only when the request was sent and answered 200 with a body that was read,
\* is JSON and lists no errors.
C14_NoErrorSwallowed ==
  \A c \in Callers :
    /\ TransportFailed(c) =>
         /\ calls[c].pc = "returned"
         /\ calls[c].res.err # NoErr
         /\ calls[c].res.val = ZeroResult(calls[c].op)
    /\ (calls[c].pc = "returned" /\ calls[c].res.err = NoErr) =>
         /\ calls[c].req.sent
         /\ calls[c].outcome.kind = "answer"
         /\ calls[c].outcome.status = StatusOK
         /\ calls[c].outcome.body.json.k # "invalid"
         /\ RemoteErrors(c) = <<>>

\* DeleteResource has returned the error of a body that could not be read
C14_Witness ==
  /\ calls[Main].pc = "returned"
  /\ calls[Main].op = "DeleteResource"
  /\ calls[Main].outcome.kind = "unread"
  /\ calls[Main].res.err = <<"failed to delete resource: ", "failed to read response body: ",
                             "unexpected EOF">>

\* what a call returns when it is the first call on a client just made from
\* cfg and the outcome of its request, if it sends one, is outcome
Alone(cfg, op, args, ctx, T, outcome) ==
  LET rq == RequestOf(op, args)
      sd == executeGraphQLSend(NewClient(cfg), ctx, rq.query, rq.variables)
  IN IF rq.err # NoErr THEN [val |-> ZeroResult(op), err |-> rq.err, panic |-> FALSE]
     ELSE IF sd.panic THEN [val |-> NoVal, err |-> NoErr, panic |-> TRUE]
     ELSE IF sd.err # NoErr
     THEN ResultOf(op, T, UntypedResult(op, [response |-> NilResponse, err |-> sd.err]))
     ELSE ResultOf(op, T, UntypedResult(op, executeGraphQLReceive(outcome)))

\* the request of that call
RequestAlone(cfg, op, args, ctx) ==
  executeGraphQLSend(NewClient(cfg), ctx, RequestOf(op, args).query,
                     RequestOf(op, args).variables).req

\* C15: after any sequence of calls, whatever their ends, the baseURL, the
\* apiKey and the HTTP client of the client are those NewClient took from the
\* Config; and a call sends the request and returns the result it would as
\* the first call on the client, whatever the end of the call before it.
C15_ClientUnchangedCallsIndependent ==
  /\ ~client.nil =>
       /\ client.baseURL = config.BaseURL
       /\ client.apiKey = config.APIKey
       /\ client.httpClient = NewClient(config).httpClient
  /\ \A c \in Callers :
       /\ calls[c].req.sent =>
            calls[c].req = RequestAlone(config, calls[c].op, calls[c].args, calls[c].ctx)
       /\ calls[c].pc \in {"returned", "panicked"} =>
            calls[c].res = Alone(config, calls[c].op, calls[c].args, calls[c].ctx, calls[c].T,
                                 calls[c].outcome)

\* a call has succeeded after a call that failed
C15_Witness ==
  /\ calls[Main].before = "failed"
  /\ calls[Main].pc = "returned"
  /\ calls[Main].op = "GetSingleResource"
  /\ calls[Main].res.err = NoErr
  /\ ~calls[Main].res.val.nil
  /\ client = NewClient(config)

\* C16: under every interleaving of the calls of the goroutines on one
\* client, the request of a call in flight is the one built from the query,
\* the variables and the context of that call and the API key of the client,
\* and the result of a call that has ended is the one that call returns
\* alone for the response to its own request.
C16_ConcurrentCallsDoNotInterfere ==
  \A c \in Callers :
    LET cl == calls[c]
        rq == RequestOf(cl.op, cl.args)
    IN /\ cl.pc = "waiting" =>
            /\ cl.req.sent
            /\ cl.req.query = rq.query
            /\ cl.req.variables = rq.variables
            /\ cl.req.header["X-Apito-Key"] = config.APIKey
            /\ cl.req.header["X-Apito-Tenant-ID"] = cl.ctx.tenant.s
            /\ cl.req = RequestAlone(config, cl.op, cl.args, cl.ctx)
       /\ cl.pc \in {"returned", "panicked"} =>
            cl.res = Alone(config, cl.op, cl.args, cl.ctx, cl.T, cl.outcome)

\* the document asked for by one goroutine has arrived while the request of
\* another goroutine, for another tenant, is in flight
C16_Witness ==
  /\ calls["g1"].pc = "returned"
  /\ calls["g1"].op = "GetSingleResourceTyped"
  /\ calls["g1"].ctx.tenant = JStr("tenant-1")
  /\ calls["g1"].res.err = NoErr
  /\ ~calls["g1"].res.val.nil
  /\ calls["g2"].pc = "waiting"
  /\ calls["g2"].op = "DeleteResource"
  /\ calls["g2"].ctx.tenant = NoTenant
  /\ calls["g2"].req.header["X-Apito-Tenant-ID"] = ""

\* the context of the call of goroutine c was done while its request was in
\* flight
Cancelled(c) == calls[c].done # ""

\* what holds of such a call at every moment: one request and no other, and
\* at its end an error with the zero result
CancelledSafely ==
  \A c \in Callers :
    Cancelled(c) =>
      /\ calls[c].nreq = 1
      /\ calls[c].pc \in {"waiting", "returned"}
      /\ calls[c].pc = "returned" =>
           /\ calls[c].res.err # NoErr
           /\ calls[c].res.val = ZeroResult(calls[c].op)
           /\ ~calls[c].res.panic

\* C17: when the context of a call is cancelled, or its deadline passes,
\* while its request is in flight, the call ends, with an error and the zero
\* result, having sent that one request and no other.
C17_CancelledCallEnds ==
  /\ []CancelledSafely
  /\ \A c \in {Main} : (Cancelled(c) /\ calls[c].pc = "waiting") ~> (calls[c].pc # "waiting")

\* a typed read has returned an error and nil after its deadline passed
C17_Witness ==
  /\ calls[Main].done = "context deadline exceeded"
  /\ calls[Main].pc = "returned"
  /\ calls[Main].op = "GetSingleResourceTyped"
  /\ calls[Main].outcome.kind = "error"
  /\ calls[Main].res.err # NoErr
  /\ calls[Main].res.val = ZeroResult("GetSingleResourceTyped")
  /\ calls[Main].nreq = 1

\* C18: every request an operation sends is a POST to the BaseURL of the
\* Config, with Content-Type application/json, with the APIKey of the Config
\* in the X-Apito-Key header, and with the query and the variables of the
\* operation in its body.
C18_RequestShape ==
  \A c \in Callers :
    calls[c].nreq > 0 =>
      /\ calls[c].req.sent
      /\ calls[c].req.method = "POST"
      /\ calls[c].req.url = config.BaseURL
      /\ calls[c].req.header["Content-Type"] = "application/json"
      /\ calls[c].req.header["X-Apito-Key"] = config.APIKey
      /\ calls[c].req.query = RequestOf(calls[c].op, calls[c].args).query
      /\ calls[c].req.variables = RequestOf(calls[c].op, calls[c].args).variables

\* the request of an update is in flight
C18_Witness ==
  /\ calls[Main].pc = "waiting"
  /\ calls[Main].op = "UpdateResource"
  /\ calls[Main].nreq = 1
  /\ calls[Main].req.method = "POST"
  /\ calls[Main].req.url = GoodURL
  /\ calls[Main].req.header["X-Apito-Key"] = "test-api-key"
  /\ calls[Main].req.query = "UpdateModelData"
  /\ "payload" \in DOMAIN calls[Main].req.variables

\* the call of goroutine c has got past everything that ends an operation
\* before its request is sent
Sendable(c) ==
  LET rq == RequestOf(calls[c].op, calls[c].args)
  IN /\ calls[c].pc # "idle"
     /\ rq.err = NoErr
     /\ MarshalPayload(rq.query, rq.variables).err = NoErr
     /\ client.baseURL # BadURL

\* C19: the request of an operation called with a context that carries a
\* string under "tenant_id" has that string in its X-Apito-Tenant-ID header;
\* with a context that carries nothing under "tenant_id" the request is sent
\* all the same, with an empty X-Apito-Tenant-ID.
C19_TenantHeader ==
  \A c \in Callers :
    /\ (calls[c].nreq > 0 /\ calls[c].ctx.tenant.k = "string") =>
         calls[c].req.header["X-Apito-Tenant-ID"] = calls[c].ctx.tenant.s
    /\ (Sendable(c) /\ calls[c].ctx.tenant.k \in {"string", "nil"}) =>
         calls[c].nreq = 1
    /\ (calls[c].nreq > 0 /\ calls[c].ctx.tenant = NoTenant) =>
         calls[c].req.header["X-Apito-Tenant-ID"] = ""

\* a search for a tenant has sent its request and has returned
C19_Witness ==
  /\ calls[Main].pc = "returned"
  /\ calls[Main].op = "SearchResources"
  /\ calls[Main].ctx.tenant = JStr("tenant-1")
  /\ calls[Main].nreq = 1
  /\ calls[Main].req.header["X-Apito-Tenant-ID"] = "tenant-1"
  /\ calls[Main].res.err = NoErr

\* C20: the HTTP client of a client made by NewClient from a Config without
\* an HTTPClient has a timeout of 30 seconds when the Timeout of the Config
\* is zero, and the Timeout of the Config otherwise.
C20_DefaultTimeout ==
  (~client.nil /\ config.HTTPClient.nil) =>
    /\ ~client.httpClient.nil
    /\ config.Timeout = 0 => client.httpClient.Timeout = 30
    /\ config.Timeout # 0 => client.httpClient.Timeout = config.Timeout

\* a client made from a Config with neither a Timeout nor an HTTPClient
C20_Witness ==
  /\ ~client.nil
  /\ config.HTTPClient.nil
  /\ config.Timeout = 0
  /\ client.httpClient.Timeout = 30

\* what the untyped counterpart of the operation of goroutine c returns for
\* the same arguments, context and response
Counterpart(c) ==
  Alone(config, Untyped(calls[c].op), calls[c].args, calls[c].ctx, calls[c].T,
        calls[c].outcome)

\* C21: a typed operation that has ended has returned nil and the error of
\* its untyped counterpart when that one fails, and otherwise what the shared
\* conversion gives for the value of the counterpart: convertToTypedDocument
\* for the three operations on one document, convertToTypedSearchResult for
\* the two searches.
C21_TypedIsConvertedUntyped ==
  \A c \in Callers :
    (calls[c].pc \in {"returned", "panicked"} /\ calls[c].op \in TypedOperations) =>
      LET raw == Counterpart(c)
          res == calls[c].res
      IN IF raw.panic THEN res.panic
         ELSE IF raw.err # NoErr
         THEN /\ ~res.panic
              /\ res.err = raw.err
              /\ res.val \in {NilTyped, NilTypedResults}
         ELSE IF calls[c].op \in {"SearchResourcesTyped", "GetRelationDocumentsTyped"}
         THEN LET r == convertToTypedSearchResult(raw.val, calls[c].T)
              IN res = [val |-> r.results, err |-> r.err, panic |-> r.panic]
         ELSE LET r == convertToTypedDocument(raw.val, calls[c].T)
              IN res = [val |-> r.doc, err |-> r.err, panic |-> r.panic]

\* a typed update has returned the error of UpdateResource, and nil
C21_Witness ==
  /\ calls[Main].pc = "returned"
  /\ calls[Main].op = "UpdateResourceTyped"
  /\ calls[Main].outcome.kind = "answer"
  /\ Counterpart(Main).err # NoErr
  /\ calls[Main].res.err = Counterpart(Main).err
  /\ calls[Main].res.val = NilTyped

\* goroutine c has sent the request of a search
Searching(c) ==
  calls[c].nreq > 0 /\ calls[c].op \in {"SearchResources", "SearchResourcesTyped"}

Markers == {env.ExpireAt : env \in Envelopes}

\* C23: whatever the expiration marker of the raw document, empty or not,
\* the ExpireAt of the typed document is 0, and the raw document with any
\* other marker in its place converts to the same typed document.
C23_ExpireAtStub ==
  DocumentConverted =>
    /\ ret.doc.ExpireAt = 0
    /\ \A marker \in Markers :
         LET other == convertToTypedDocument([rawDoc EXCEPT !.ExpireAt = marker], shape)
         IN /\ ~other.panic
            /\ other.err = NoErr
            /\ other.doc = ret.doc

\* a raw document with a marker that is not empty has been converted
C23_Witness ==
  /\ DocumentConverted
  /\ rawDoc.ExpireAt = "2030-01-01T00:00:00Z"
  /\ ret.doc.ExpireAt = 0
  /\ ret.doc.ID = rawDoc.ID

\* C24: an answer is accepted with the status 200 and no other: with any
\* other status, 201 among them, the call fails with "HTTP error " and the
\* status, and never with the error of decoding the body, whatever the body;
\* a call that succeeds has been answered 200.
C24_OnlyStatus200 ==
  \A c \in Callers :
    Answered(c) =>
      LET status == calls[c].outcome.status
          err == calls[c].res.err
      IN /\ status # 200 =>
              /\ calls[c].pc = "returned"
              /\ Contains(err, <<"HTTP error ", ToString(status)>>)
              /\ ~Contains(err, <<"failed to unmarshal GraphQL response: ">>)
         /\ status = 200 => ~Contains(err, <<"HTTP error ">>)
         /\ (calls[c].pc = "returned" /\ err = NoErr) => status = 200

\* a creation has been answered 201 with the document, and has failed
C24_Witness ==
  /\ Answered(Main)
  /\ calls[Main].op = "CreateNewResource"
  /\ calls[Main].outcome.status = 201
  /\ calls[Main].outcome.body.json.k = "object"
  /\ calls[Main].outcome.body.json.data.k = "map"
  /\ "upsertModelData" \in DOMAIN calls[Main].outcome.body.json.data.m
  /\ Contains(calls[Main].res.err, <<"HTTP error ", "201">>)
  /\ calls[Main].res.val = NilDoc

\* the results the answer to the search of goroutine c lists, when the call
\* has ended after a well-formed answer: status 200, no errors, and under
\* getModelData a list of documents and nulls
ListedResults(c) ==
  LET body == calls[c].outcome.body.json
      listed == body.data.m["getModelData"]
  IN IF /\ Answered(c)
        /\ Untyped(calls[c].op) \in {"SearchResources", "GetRelationDocuments"}
        /\ calls[c].outcome.status = 200
        /\ body.k = "object"
        /\ body.errors.k \in {"absent", "array"}
        /\ RemoteErrors(c) = <<>>
        /\ body.data.k = "map"
        /\ "getModelData" \in DOMAIN body.data.m
        /\ listed.k = "results"
        /\ ~listed.isNull
        /\ \A j \in 1..Len(listed.items) :
             \/ listed.items[j].k = "null"
             \/ listed.items[j].k = "doc" /\ listed.items[j].data.k \in {"map", "null"}
     THEN listed.items
     ELSE <<>>

\* the places of the nulls among them
NullPlaces(c) == {k \in 1..Len(ListedResults(c)) : ListedResults(c)[k].k = "null"}

\* every element before place k is a document that converts into T
ConvertibleBefore(c, k) ==
  \A h \in 1..(k - 1) :
    /\ ListedResults(c)[h].k = "doc"
    /\ Converts(UnmarshalDocument(ListedResults(c)[h]).doc, calls[c].T)

NullUnderKey(c) ==
  LET body == calls[c].outcome.body.json
  IN /\ Answered(c)
     /\ Untyped(calls[c].op) \in {"GetSingleResource", "CreateNewResource", "UpdateResource"}
     /\ calls[c].outcome.status = 200
     /\ body.k = "object"
     /\ body.errors.k \in {"absent", "array"}
     /\ RemoteErrors(c) = <<>>
     /\ body.data.k = "map"
     /\ ResponseKey(calls[c].op) \in DOMAIN body.data.m
     /\ body.data.m[ResponseKey(calls[c].op)] = JNull

\* C26: when the data of the response has the key of the operation with the
\* value null, GetSingleResource, CreateNewResource and UpdateResource return
\* a document that is not nil and has the zero value in every field, and a
\* nil error; their typed variants return a typed document that is not nil,
\* with the zero value of T as its Data, and a nil error.
C26_NullIsZeroDocument ==
  \A c \in Callers :
    NullUnderKey(c) =>
      LET doc == calls[c].res.val
      IN /\ calls[c].pc = "returned"
         /\ calls[c].res.err = NoErr
         /\ ~doc.nil
         /\ doc.ID = "" /\ doc.Key = "" /\ doc.Type = "" /\ doc.RelationDocID = ""
         /\ doc.Meta = NilAddr
         /\ IF calls[c].op \in UntypedOperations
            THEN IsNilMap(doc.Data) /\ doc.ExpireAt = ""
            ELSE doc.Data = ZeroValue(calls[c].T) /\ doc.ExpireAt = 0

\* a typed read of a record that is missing has returned a zero Product
C26_Witness ==
  /\ NullUnderKey(Main)
  /\ calls[Main].op = "GetSingleResourceTyped"
  /\ calls[Main].T = Product
  /\ calls[Main].res.err = NoErr
  /\ ~calls[Main].res.val.nil
  /\ calls[Main].res.val.Data = ZeroValue(Product)

\* goroutine c has called an operation with a context that carries under
\* "tenant_id" a value that is not a string
ForeignTenant(c) ==
  /\ calls[c].pc # "idle"
  /\ calls[c].ctx.tenant # NoTenant
  /\ calls[c].ctx.tenant.k # "string"

\* C27 (as stated): every operation called with such a context aborts before
\* a request is built or sent, and returns no error value.
C27_ForeignTenantPanics ==
  \A c \in Callers :
    ForeignTenant(c) =>
      /\ calls[c].pc = "panicked"
      /\ calls[c].res.panic
      /\ calls[c].nreq = 0
      /\ ~calls[c].req.sent

\* C27 (amended): an operation called with such a context sends no request;
\* it aborts with the failed type assertion when its arguments pass its own
\* validation, and returns the error of the validation, and nil, when they
\* do not.
C27_ForeignTenantPanicsAfterValidation ==
  \A c \in Callers :
    ForeignTenant(c) =>
      /\ calls[c].nreq = 0
      /\ ~calls[c].req.sent
      /\ IF RequestOf(calls[c].op, calls[c].args).err = NoErr
         THEN calls[c].pc = "panicked" /\ calls[c].res.panic
         ELSE /\ calls[c].pc = "returned"
              /\ calls[c].res.err = RequestOf(calls[c].op, calls[c].args).err
              /\ calls[c].res.val = ZeroResult(calls[c].op)

\* a creation whose payload json.Marshal would refuse has aborted at the
\* tenant id
C27_Witness ==
  /\ ForeignTenant(Main)
  /\ calls[Main].op = "CreateNewResource"
  /\ calls[Main].args.Model = "todo"
  /\ calls[Main].args.Payload = [price |-> NaN]
  /\ calls[Main].pc = "panicked"
  /\ calls[Main].nreq = 0

\* the arguments of the call of goroutine c with another value in the place
\* of the _id of GetRelationDocuments or of the aggregate of SearchResources
Varied(c) ==
  CASE Untyped(calls[c].op) = "GetRelationDocuments" ->
         {[calls[c].args EXCEPT !.id = id] : id \in {"u1", "u2", ""}}
    [] Untyped(calls[c].op) = "SearchResources" ->
         {[calls[c].args EXCEPT !.aggregate = aggregate] : aggregate \in BOOLEAN}
    [] OTHER -> {}

Refusal(c) ==
  LET op == Untyped(calls[c].op)
      args == calls[c].args
  IN CASE op = "CreateNewResource" ->
            IF args.Model = "" THEN "model is required"
            ELSE IF IsNilMap(args.Payload) THEN "payload is required"
            ELSE ""
       [] op = "UpdateResource" ->
            IF args.ID = "" THEN "id is required"
            ELSE IF args.Model = "" THEN "model is required"
            ELSE IF IsNilMap(args.Payload) THEN "payload is required"
            ELSE ""
       [] op = "GetRelationDocuments" ->
            IF \/ IsNilMap(args.connection)
               \/ "model" \notin DOMAIN args.connection
               \/ args.connection["model"].k # "string"
            THEN "model is required in connection parameters"
            ELSE ""
       [] OTHER -> ""

\* C29: CreateNewResource with an empty Model or a nil Payload,
\* UpdateResource with an empty ID, an empty Model or a nil Payload, the first
\* of these in that order deciding the error, and GetRelationDocuments with a
\* connection without a string under "model" return that error and nil, and
\* send no request.
C29_ValidationBeforeNetwork ==
  \A c \in Callers :
    (calls[c].pc # "idle" /\ Refusal(c) # "") =>
      /\ calls[c].pc = "returned"
      /\ calls[c].res.err = <<Refusal(c)>>
      /\ calls[c].res.val = ZeroResult(calls[c].op)
      /\ calls[c].nreq = 0
      /\ ~calls[c].req.sent
      /\ calls[c].outcome = NoOutcome

\* an update with neither id nor model has been refused for its id
C29_Witness ==
  /\ calls[Main].pc = "returned"
  /\ calls[Main].op = "UpdateResource"
  /\ calls[Main].args.ID = ""
  /\ calls[Main].args.Model = ""
  /\ calls[Main].res.err = <<"id is required">>
  /\ calls[Main].res.val = NilDoc
  /\ calls[Main].nreq = 0

\* the body decodes into a GraphQLResponse: it is null, or an object whose
\* errors, if it has any, are a list of objects with string messages
Decodable(body) ==
  \/ body.json.k = "null"
  \/ /\ body.json.k = "object"
     /\ body.json.errors.k \in {"absent", "array"}
     /\ \A j \in 1..Len(body.json.errors.items) :
          body.json.errors.items[j].message.k = "string"

\* the request of goroutine c was sent and answered 200 with a body that
\* decodes and lists no errors
Accepted(c) ==
  /\ calls[c].req.sent
  /\ calls[c].outcome.kind = "answer"
  /\ calls[c].outcome.status = 200
  /\ Decodable(calls[c].outcome.body)
  /\ RemoteErrors(c) = <<>>

\* C30: DeleteResource and SendAuditLog return nil exactly when the request
\* was answered 200 with a body that decodes and lists no errors, whatever
\* the data of the response: null, or without the key of the mutation.
C30_DataNotInspected ==
  \A c \in Callers :
    (calls[c].pc = "returned" /\ calls[c].op \in {"DeleteResource", "SendAuditLog"}) =>
      /\ calls[c].res.err = NoErr <=> Accepted(c)
      /\ calls[c].res.val = NoVal

\* SendAuditLog has returned nil for a response whose data is an object
\* without sendAuditLog
C30_Witness ==
  /\ calls[Main].pc = "returned"
  /\ calls[Main].op = "SendAuditLog"
  /\ Accepted(Main)
  /\ calls[Main].outcome.body.json.k = "object"
  /\ calls[Main].outcome.body.json.data = JMap(<<>>, "{}")
  /\ calls[Main].res.err = NoErr

====
